---------------------------- MODULE Spec2Model ----------------------------
(***************************************************************************)
(* A model of resume-retool's keyword engine (src/keyword_optimizer.py):   *)
(* KeywordOptimizer's tables and experience vocabulary, and its operations *)
(* extract_job_keywords, match_keywords_to_experience,                     *)
(* _find_experience_match, rewrite_bullet_with_keywords and                *)
(* generate_keyword_report.                                                *)
(*                                                                         *)
(* Python strings are TLA+ strings; TLC evaluates Len, SubSeq, Head, Tail  *)
(* and \o on them, so every test the code makes on characters (substring,  *)
(* lower, strip, split, the regular expressions) is computed on            *)
(* characters here.  Floats are written in tenths (1.0 is 10, 0.8 is 8).   *)
(* Optional[KeywordMatch] is a sequence of no or one KeywordMatch.         *)
(* The model's texts are ASCII: the en dash U+2013 of the source data is   *)
(* written en_dash, the bullet U+2022 of the resume text bullet_mark (two  *)
(* characters no text of the model contains otherwise), and the bullet     *)
(* marker U+2022 of the item pattern never occurs in a job text.           *)
(* The methods are modelled as their bodies read; that the module names    *)
(* Optional in an annotation without importing it is outside the model.    *)
(***************************************************************************)
EXTENDS Integers, Sequences, FiniteSets, TLC

VARIABLES
    user_data,            \* KeywordOptimizer.user_data
    experience_keywords,  \* KeywordOptimizer.experience_keywords
    verified_domains,     \* KeywordOptimizer.verified_domains
    forbidden_keywords,   \* KeywordOptimizer.forbidden_keywords
    phase,                \* what the caller did last: "idle", or the call that returned
    keyword,              \* argument of the last _find_experience_match call
    found,                \* its result
    job_keywords,         \* argument of the last match_keywords_to_experience call
    matches,              \* its result
    prev_matches,         \* the result of the call before, when the same argument was passed twice
    job_text,             \* the text of the last generate_keyword_report or extract_job_keywords call
    report,               \* its result
    original_bullet,      \* arguments of the last rewrite_bullet_with_keywords call
    keywords,
    rewritten,            \* its result
    extracted,            \* the result of the last extract_job_keywords call
    prev_extracted,       \* the result of the call before, when the same text was passed twice
    prev_rewritten,       \* the result of the rewrite_bullet_with_keywords call before
    synonyms_returned,    \* the result of the last _get_synonyms call
    selected_experiences, \* the result of the last _select_relevant_experiences call
    optimized_summary,    \* the result of the last _optimize_summary call
    pc,                   \* where each run of main() is
    input_source,         \* process_job_posting's argument, per run
    extraction_result,    \* process_job_posting's locals, per run
    keyword_report,
    customized_resume,
    results,              \* main's local, per run
    saved                 \* the files save_results wrote, per run

vars == <<user_data, experience_keywords, verified_domains, forbidden_keywords, phase,
          keyword, found, job_keywords, matches, prev_matches, job_text, report,
          original_bullet, keywords, rewritten, extracted, prev_extracted, prev_rewritten,
          synonyms_returned, selected_experiences, optimized_summary, pc, input_source,
          extraction_result, keyword_report, customized_resume, results, saved>>

\* the locals of the runs of main()
system == <<pc, input_source, extraction_result, keyword_report, customized_resume, results,
            saved>>

optimizer == <<user_data, experience_keywords, verified_domains, forbidden_keywords>>

\* what the calls made one at a time returned, beside the results named above
outcomes == <<prev_rewritten, synonyms_returned, selected_experiences, optimized_summary>>

-----------------------------------------------------------------------------
(* Python's str and list primitives, on characters.                        *)

Char(s, i) == SubSeq(s, i, i)

\* stand-ins for the two non-ASCII characters of the source
en_dash == "^"

bullet_mark == "#"

Min(S) == CHOOSE m \in S : \A n \in S : m <= n

Max(a, b) == IF a >= b THEN a ELSE b

\* p in s (str): p occurs in s as a substring; the empty string occurs in every string.
In(p, s) == \E i \in 1..(Len(s) - Len(p) + 1) : SubSeq(s, i, i + Len(p) - 1) = p

\* x in xs (list)
InList(x, xs) == \E i \in 1..Len(xs) : xs[i] = x

UpperChars == "ABCDEFGHIJKLMNOPQRSTUVWXYZ"

LowerChars == "abcdefghijklmnopqrstuvwxyz"

UpperSet == {Char(UpperChars, i) : i \in 1..Len(UpperChars)}

LowerSet == {Char(LowerChars, i) : i \in 1..Len(LowerChars)}

IsUpper(c) == c \in UpperSet

IsAlpha(c) == c \in UpperSet \/ c \in LowerSet

IsDigit(c) == \E i \in 1..10 : Char("0123456789", i) = c

\* \w of the re module, on ASCII
IsWordChar(c) == IsAlpha(c) \/ IsDigit(c) \/ c = "_"

\* str.isspace / \s of the re module, on ASCII
IsSpace(c) == c \in {" ", "\n", "\t", "\r", "\f"}

\* the lower-case letter of each upper-case letter, and the converse
ToLower ==
    [c \in UpperSet |-> Char(LowerChars, CHOOSE i \in 1..Len(UpperChars) : Char(UpperChars, i) = c)]

ToUpper ==
    [c \in LowerSet |-> Char(UpperChars, CHOOSE i \in 1..Len(LowerChars) : Char(LowerChars, i) = c)]

LowerChar(c) == IF c \in UpperSet THEN ToLower[c] ELSE c

UpperChar(c) == IF c \in LowerSet THEN ToUpper[c] ELSE c

RECURSIVE lower(_)
lower(s) ==
    IF Len(s) = 0 THEN ""
    ELSE IF Len(s) = 1 THEN LowerChar(s)
    ELSE lower(SubSeq(s, 1, Len(s) \div 2)) \o lower(SubSeq(s, Len(s) \div 2 + 1, Len(s)))

RECURSIVE lstrip(_)
lstrip(s) == IF s # "" /\ IsSpace(Head(s)) THEN lstrip(Tail(s)) ELSE s

RECURSIVE rstrip(_)
rstrip(s) ==
    IF s # "" /\ IsSpace(Char(s, Len(s))) THEN rstrip(SubSeq(s, 1, Len(s) - 1)) ELSE s

strip(s) == rstrip(lstrip(s))

\* str.split(): the maximal runs of non-whitespace characters, in order
RECURSIVE split(_)
split(s) ==
    LET t == lstrip(s)
        n == Min({i \in 1..(Len(t) + 1) : i = Len(t) + 1 \/ IsSpace(Char(t, i))}) - 1
    IN  IF t = "" THEN <<>> ELSE <<SubSeq(t, 1, n)>> \o split(SubSeq(t, n + 1, Len(t)))

\* str.split(sep) for a one-character separator: the pieces between separators,
\* in order; a text is split by halves, the piece that ends the first half and
\* the one that starts the second being one piece
RECURSIVE split_on(_, _)
split_on(s, sep) ==
    IF Len(s) <= 1
    THEN IF s = sep THEN <<"", "">> ELSE <<s>>
    ELSE LET left == split_on(SubSeq(s, 1, Len(s) \div 2), sep)
             right == split_on(SubSeq(s, Len(s) \div 2 + 1, Len(s)), sep)
         IN  SubSeq(left, 1, Len(left) - 1)
             \o <<left[Len(left)] \o right[1]>>
             \o Tail(right)

Range(xs) == {xs[i] : i \in 1..Len(xs)}

RECURSIVE Flatten(_)
Flatten(xss) == IF xss = <<>> THEN <<>> ELSE Head(xss) \o Flatten(Tail(xss))

-----------------------------------------------------------------------------
(* The experience records a KeywordOptimizer is constructed with.          *)

\* ResumeRetoolSystem._load_user_data
MainRecord ==
    [full_name |-> "Your Name",
     contact |-> "your.email@example.com | Your Location | LinkedIn",
     title |-> "SVP, Director Integrated Delivery | Best Practices & Change Agent | Operations Guru",
     summary |-> "A highly accomplished, creative, and strategic Project Management & Business Operations Leader with 20+ years of extensive work experience",
     skills |-> <<
        "Project & Program Management",
        "Change Management",
        "Digital Production",
        "Agile & Waterfall Methodology",
        "Risk Assessment & Mitigation",
        "Stakeholder Management",
        "Operations Management",
        "Vendor Management",
        "Financial & Budget Planning",
        "Workflow Design",
        "Team Leadership">>,
     experience |-> <<
        [company |-> "TBWA WH, NEW YORK, NY",
         dates |-> "2023 " \o en_dash \o " Present",
         title |-> "SVP, Director of Integrated Delivery/Project + Program Management",
         bullets |-> <<
            "Build, grow, lead a department of 30 Project Managers across approx. 70 million dollar portfolio",
            "Oversee entire P&L across projects, resource allocations, scope change/creep, etc",
            "Improve, modernize, and digitize production, work streams, Ways of Working across the agency",
            "Manage and optimize program performance by tracking activities, goals, targets, KPIs, and budgets",
            "Indispensable partner across all disciplines; continuously partnering to improve and optimize delivery",
            "PM Driver for operationalizing AI practices within PM dept, overall agency">>],
        [company |-> "ACCENTURE, NEW YORK, NY",
         dates |-> "2020 " \o en_dash \o " 2023",
         title |-> "Marketing and Communications Brand Delivery Lead",
         bullets |-> <<
            "Led change management in a dynamic and growing start-up environment",
            "Improved, modernized, and digitized production work streams by performing workflow and gap analysis",
            "Developed and mentored a project management team of 8-12 members",
            "Oversaw ~30 active projects across Health and Public Service, Comms & Media, High Tech, Banking, Insurance sectors",
            "Led PM Department leadership and growth along with managing P&L across all projects",
            "Promoted from NY Brand Delivery Lead to NA and Canada Brand Delivery Lead">>],
        [company |-> "FREELANCE",
         dates |-> "2017 " \o en_dash \o " 2019",
         title |-> "Executive Producer/PMO Consultant",
         bullets |-> <<
            "Took charge of project portfolio management, initialized project management processes, and implemented project management tools and methods",
            "Led complex projects from initiation through deployment including user adoption and change management",
            "Worked through complex, multi-functional issues, led technical teams towards innovative and advanced solutions",
            "Clients included: Global VW Pitch (Won), Walmart CX Transformation, Pepperidge Farm, Proactive, Merck Content Hub, Cigna, Honeywell Pitch">>],
        [company |-> "Y&R NY",
         dates |-> "2016 " \o en_dash \o " 2017",
         title |-> "VP, Director of Project Management and Digital Operations",
         bullets |-> <<
            "Built, grew, and led the PM Department of 10 Project Managers",
            "Oversaw entire P&L across projects, resource allocations, scope change/creep",
            "Performed workflow and gap analysis to improve, modernize, and digitize production work streams",
            "Managed and assessed program performance by tracking activities, goals, targets, KPIs, and budgets",
            "Identified process improvements, innovative solutions, and new tools for broader team capacity">>],
        [company |-> "FREELANCE",
         dates |-> "2013 " \o en_dash \o " 2016",
         title |-> "Executive Producer",
         bullets |-> <<
            "Produced audience-first, engaging storytelling through digital articles, videos, social media, push alerts, live streams",
            "Clients: Ogilvy (UPS, Siemens), Atmosphere BBDO (Dubai Tourism), Havas Group (IBM), RAPP (NBCU, J&J, Pfizer)",
            "Clients: Ogilvy (eTrade, Citizens Bank), Geometry/G2 (Campbell's Soup/Pepperidge Farm)">>],
        [company |-> "PUBLICIS KAPLAN THALER",
         dates |-> "2010 " \o en_dash \o " 2013",
         title |-> "Head of Digital Production",
         bullets |-> <<
            "Oversaw business of approx. $15-$20 million and scheduling, change management, and delivery processes",
            "Managed projects across 14 accounts including over 30 active projects for Wendy's, Merck, P&G, Napa, Champion",
            "Hired, supervised, trained, and managed a team of 5-7 digital producers",
            "Established and led the first Digital PM/Production Department for Kaplan Thaler Group",
            "Awards: 2 Webbys, 4 IACs, and 1 Golden Tweet Award">>]>>,
     education |-> <<
        [degree |-> "MFA, Literature, Fiction, Writing",
         school |-> "City University of New York-Brooklyn College"],
        [degree |-> "B.A. Degree, Literature and Creative Writing",
         school |-> "Binghamton University"],
        [degree |-> "B.A. Degree, German; German Philology and Literature",
         school |-> "University of Gottingen"]>>]

\* sample_resume of the module's example
SampleRecord ==
    [skills |-> <<
        "Project & Program Management",
        "Change Management",
        "Digital Production",
        "Agile & Waterfall Methodology",
        "Stakeholder Management",
        "Operations Management">>,
     experience |-> <<
        [company |-> "Current Company",
         dates |-> "",
         title |-> "Your Title",
         bullets |-> <<
            "Lead department with significant portfolio",
            "Oversee P&L and resource management",
            "Drive modernization initiatives">>]>>]

\* a record with no skills and no roles: user_data.get(..., []) yields empty lists
EmptyRecord == [skills |-> <<>>, experience |-> <<>>]

Records == {MainRecord, SampleRecord, EmptyRecord}

-----------------------------------------------------------------------------
(* KeywordOptimizer.__init__                                               *)

\* dicts keep insertion order: a dict is the sequence of its items
VerifiedDomains == <<
    [key |-> "project_management", value |-> <<
        "project management", "program management", "PMO", "portfolio management",
        "agile", "waterfall", "scrum", "JIRA", "Workfront", "Smartsheet">>],
    [key |-> "leadership", value |-> <<
        "team leadership", "director", "SVP", "executive", "manage teams",
        "30 project managers", "70 million portfolio", "P&L responsibility">>],
    [key |-> "operations", value |-> <<
        "operations management", "operational excellence", "process improvement",
        "workflow design", "delivery", "execution", "implementation">>],
    [key |-> "change_management", value |-> <<
        "change management", "transformation", "organizational change",
        "change agent", "process redesign", "modernization">>],
    [key |-> "industries", value |-> <<
        "advertising", "marketing", "digital production", "agency",
        "TBWA", "Accenture", "Y&R", "Publicis", "healthcare clients",
        "financial services clients", "retail clients">>],
    [key |-> "technical", value |-> <<
        "digital", "AI practices", "digitize production", "monday.com",
        "Microsoft Office", "workflow automation", "data analysis">>]>>

ForbiddenKeywords == <<
    [key |-> "direct_clinical", value |-> <<
        "physician", "nurse", "clinical practice", "patient care">>],
    [key |-> "technical_deep", value |-> <<
        "software engineering", "coding", "programming", "developer">>],
    [key |-> "specific_certs", value |-> <<
        "PMP", "Six Sigma", "ITIL", "Scrum Master">>]>>

\* the values of a dict, concatenated in the dict's order
Values(dict) == Flatten([i \in 1..Len(dict) |-> dict[i].value])

_extract_resume_keywords(data) ==
    UNION {UNION {Range(split(lower(b))) : b \in Range(exp.bullets)} : exp \in Range(data.experience)}
    \cup {lower(skill) : skill \in Range(data.skills)}

-----------------------------------------------------------------------------
(* The Keyword Matcher.                                                    *)

KeywordMatch(kw, job_context, resume_context, match_type, confidence) ==
    [keyword |-> kw, job_context |-> job_context, resume_context |-> resume_context,
     match_type |-> match_type, confidence |-> confidence]

_is_forbidden(kw) ==
    \E i \in 1..Len(forbidden_keywords) :
        \E j \in 1..Len(forbidden_keywords[i].value) :
            In(forbidden_keywords[i].value[j], kw)

synonym_map == <<
    [key |-> "manage", value |-> <<"lead", "oversee", "direct", "supervise">>],
    [key |-> "implement", value |-> <<"execute", "deploy", "deliver", "launch">>],
    [key |-> "strategy", value |-> <<"strategic", "planning", "roadmap">>],
    [key |-> "stakeholder", value |-> <<"client", "partner", "executive", "leadership">>],
    [key |-> "process", value |-> <<"workflow", "procedure", "framework">>],
    [key |-> "transform", value |-> <<"change", "modernize", "improve", "optimize">>]>>

\* the synonyms of an item looked up by its key only
SynonymsOfItem_by_key(item, kw) ==
    IF In(item.key, kw) THEN item.value ELSE <<>>

\* what one item of synonym_map adds to the list
SynonymsOfItem(item, kw) ==
    IF In(item.key, kw) THEN item.value
    ELSE IF InList(kw, item.value)
         THEN <<item.key>> \o SelectSeq(item.value, LAMBDA v : v # kw)
         ELSE <<>>

_get_synonyms(kw) ==
    Flatten([i \in 1..Len(synonym_map) |-> SynonymsOfItem(synonym_map[i], kw)])

\* _find_experience_match with the related-experience rule tried before the direct one
_find_experience_match_related_first(kw) ==
    LET verified == Values(verified_domains)
        related == {i \in 1..Len(verified) : In(kw, verified[i]) \/ In(verified[i], kw)}
        synonyms == _get_synonyms(kw)
        similar == {i \in 1..Len(synonyms) : synonyms[i] \in experience_keywords}
    IN  IF related # {}
        THEN <<KeywordMatch(kw, "Required in job posting",
                            "Related experience: " \o verified[Min(related)], "related", 8)>>
        ELSE IF kw \in experience_keywords
        THEN <<KeywordMatch(kw, "Required in job posting", "Direct experience", "exact", 10)>>
        ELSE IF similar # {}
        THEN <<KeywordMatch(kw, "Required in job posting",
                            "Similar experience: " \o synonyms[Min(similar)], "synonym", 7)>>
        ELSE <<>>

\* _find_experience_match with a synonym rated above a related match (0.9 for 0.7)
_find_experience_match_synonym_09(kw) ==
    LET verified == Values(verified_domains)
        related == {i \in 1..Len(verified) : In(kw, verified[i]) \/ In(verified[i], kw)}
        synonyms == _get_synonyms(kw)
        similar == {i \in 1..Len(synonyms) : synonyms[i] \in experience_keywords}
    IN  IF kw \in experience_keywords
        THEN <<KeywordMatch(kw, "Required in job posting", "Direct experience", "exact", 10)>>
        ELSE IF related # {}
        THEN <<KeywordMatch(kw, "Required in job posting",
                            "Related experience: " \o verified[Min(related)], "related", 8)>>
        ELSE IF similar # {}
        THEN <<KeywordMatch(kw, "Required in job posting",
                            "Similar experience: " \o synonyms[Min(similar)], "synonym", 9)>>
        ELSE <<>>

\* _find_experience_match with the evidence of a related match naming the domain
\* (the key of verified_domains) instead of the phrase that matched
_find_experience_match_domain_name(kw) ==
    LET verified == Values(verified_domains)
        related == {i \in 1..Len(verified) : In(kw, verified[i]) \/ In(verified[i], kw)}
        domains == {i \in 1..Len(verified_domains) :
                        \E j \in 1..Len(verified_domains[i].value) :
                            In(kw, verified_domains[i].value[j])
                                \/ In(verified_domains[i].value[j], kw)}
        synonyms == _get_synonyms(kw)
        similar == {i \in 1..Len(synonyms) : synonyms[i] \in experience_keywords}
    IN  IF kw \in experience_keywords
        THEN <<KeywordMatch(kw, "Required in job posting", "Direct experience", "exact", 10)>>
        ELSE IF related # {}
        THEN <<KeywordMatch(kw, "Required in job posting",
                            "Related experience: " \o verified_domains[Min(domains)].key,
                            "related", 8)>>
        ELSE IF similar # {}
        THEN <<KeywordMatch(kw, "Required in job posting",
                            "Similar experience: " \o synonyms[Min(similar)], "synonym", 7)>>
        ELSE <<>>

_find_experience_match(kw) ==
    LET verified == Values(verified_domains)
        related == {i \in 1..Len(verified) : In(kw, verified[i]) \/ In(verified[i], kw)}
        synonyms == _get_synonyms(kw)
        similar == {i \in 1..Len(synonyms) : synonyms[i] \in experience_keywords}
    IN  IF kw \in experience_keywords
        THEN <<KeywordMatch(kw, "Required in job posting", "Direct experience", "exact", 10)>>
        ELSE IF related # {}
        THEN <<KeywordMatch(kw, "Required in job posting",
                            "Related experience: " \o verified[Min(related)], "related", 8)>>
        ELSE IF similar # {}
        THEN <<KeywordMatch(kw, "Required in job posting",
                            "Similar experience: " \o synonyms[Min(similar)], "synonym", 7)>>
        ELSE <<>>

\* the body of match_keywords_to_experience's loop, for one keyword
MatchKeyword(kw) ==
    LET keyword_lower == strip(lower(kw))
    IN  IF _is_forbidden(keyword_lower) THEN <<>> ELSE _find_experience_match(keyword_lower)

\* match_keywords_to_experience with the result list kept on the object between
\* calls instead of being created by each call
match_keywords_to_experience_kept_list(jk) ==
    LET all == Values(jk)
    IN  matches \o Flatten([i \in 1..Len(all) |-> MatchKeyword(all[i])])

match_keywords_to_experience(jk) ==
    LET all == Values(jk)
    IN  Flatten([i \in 1..Len(all) |-> MatchKeyword(all[i])])

-----------------------------------------------------------------------------
(* The Job-Keyword Extractor.                                              *)

\* the first index >= from at which p starts in s, or 0
Find(s, p, from) ==
    LET at == {i \in from..(Len(s) - Len(p) + 1) : SubSeq(s, i, i + Len(p) - 1) = p}
    IN  IF at = {} THEN 0 ELSE Min(at)

\* $ without re.MULTILINE: the end of the text, or just before a final newline
AtEnd(s, i) == i = Len(s) + 1 \/ (i = Len(s) /\ Char(s, i) = "\n")

\* re.findall(header [\s\S]*? (?=stop|...|$), s): each match runs from a header to
\* the nearest place, at or after the header's end, where a stop or $ follows
RECURSIVE FindSections(_, _, _, _)
FindSections(s, header, stops, from) ==
    LET p == Find(s, header, from)
        e == Min({j \in (p + Len(header))..(Len(s) + 1) :
                    AtEnd(s, j) \/ \E k \in 1..Len(stops) : Find(s, stops[k], j) = j})
    IN  IF p = 0 THEN <<>>
        ELSE <<SubSeq(s, p, e - 1)>> \o FindSections(s, header, stops, e)

required_patterns == <<
    [header |-> "required", stops |-> <<"preferred", "desired", "responsibilities">>],
    [header |-> "must have", stops |-> <<"nice to have", "preferred">>],
    [header |-> "qualifications", stops |-> <<"preferred", "responsibilities">>]>>

\* [-*] of the item pattern
IsMarker(c) == c \in {"-", "*"}

\* [^-*\n] of the item pattern
IsItemChar(c) == ~IsMarker(c) /\ c # "\n"

\* re.findall(marker \s* ([^markers\n]+), s): after a marker the greedy \s* gives
\* back whitespace until an item character follows; the item is the longest run
\* of item characters from there
RECURSIVE FindItems(_, _)
FindItems(s, from) ==
    LET markers == {i \in from..Len(s) : IsMarker(Char(s, i))}
        q == Min(markers)
        r == Min({i \in (q + 1)..(Len(s) + 1) : i = Len(s) + 1 \/ ~IsSpace(Char(s, i))})
        starts == {g \in (q + 1)..r : g <= Len(s) /\ IsItemChar(Char(s, g))}
        g == CHOOSE x \in starts : \A y \in starts : y <= x
        h == Min({i \in g..(Len(s) + 1) : i = Len(s) + 1 \/ ~IsItemChar(Char(s, i))})
    IN  IF markers = {} THEN <<>>
        ELSE IF starts = {} THEN FindItems(s, q + 1)
        ELSE <<SubSeq(s, g, h - 1)>> \o FindItems(s, h)

action_verbs == <<
    "lead", "manage", "develop", "implement", "oversee", "drive",
    "coordinate", "collaborate", "design", "execute", "monitor">>

healthcare_terms == <<
    "healthcare", "health care", "medicaid", "medicare", "duals",
    "health plan", "managed care", "clinical", "regulatory", "CMS">>

extract_job_keywords_found_only(text) ==
    LET job_lower == lower(text)
        sections == Flatten([i \in 1..Len(required_patterns) |->
                        FindSections(job_lower, required_patterns[i].header,
                                     required_patterns[i].stops, 1)])
        sentences == split_on(text, ".")
        tagged == SelectSeq(sentences,
                    LAMBDA sentence : \E v \in 1..Len(action_verbs) :
                                          In(action_verbs[v], lower(sentence)))
    IN  SelectSeq(<<[key |-> "required_skills",
           value |-> Flatten([i \in 1..Len(sections) |-> FindItems(sections[i], 1)])],
          [key |-> "preferred_skills", value |-> <<>>],
          [key |-> "responsibilities",
           value |-> [i \in 1..Len(tagged) |-> strip(tagged[i])]],
          [key |-> "tools", value |-> <<>>],
          [key |-> "industry_specific",
           value |-> SelectSeq(healthcare_terms, LAMBDA term : In(term, job_lower))]>>,
                  LAMBDA category : category.value # <<>>)

\* extract_job_keywords with a sentence recorded once for each verb it holds
extract_job_keywords_per_verb(text) ==
    LET job_lower == lower(text)
        sections == Flatten([i \in 1..Len(required_patterns) |->
                        FindSections(job_lower, required_patterns[i].header,
                                     required_patterns[i].stops, 1)])
        sentences == split_on(text, ".")
        tagged == Flatten([i \in 1..Len(sentences) |->
                    [j \in 1..Len(SelectSeq(action_verbs,
                                            LAMBDA verb : In(verb, lower(sentences[i])))) |->
                        sentences[i]]])
    IN  <<[key |-> "required_skills",
           value |-> Flatten([i \in 1..Len(sections) |-> FindItems(sections[i], 1)])],
          [key |-> "preferred_skills", value |-> <<>>],
          [key |-> "responsibilities",
           value |-> [i \in 1..Len(tagged) |-> strip(tagged[i])]],
          [key |-> "tools", value |-> <<>>],
          [key |-> "industry_specific",
           value |-> SelectSeq(healthcare_terms, LAMBDA term : In(term, job_lower))]>>

extract_job_keywords(text) ==
    LET job_lower == lower(text)
        sections == Flatten([i \in 1..Len(required_patterns) |->
                        FindSections(job_lower, required_patterns[i].header,
                                     required_patterns[i].stops, 1)])
        sentences == split_on(text, ".")
        tagged == SelectSeq(sentences,
                    LAMBDA sentence : \E v \in 1..Len(action_verbs) :
                                          In(action_verbs[v], lower(sentence)))
    IN  <<[key |-> "required_skills",
           value |-> Flatten([i \in 1..Len(sections) |-> FindItems(sections[i], 1)])],
          [key |-> "preferred_skills", value |-> <<>>],
          [key |-> "responsibilities",
           value |-> [i \in 1..Len(tagged) |-> strip(tagged[i])]],
          [key |-> "tools", value |-> <<>>],
          [key |-> "industry_specific",
           value |-> SelectSeq(healthcare_terms, LAMBDA term : In(term, job_lower))]>>

-----------------------------------------------------------------------------
(* The Rewriter.                                                           *)

safe_replacements == <<
    [key |-> "managed", value |-> "strategically led"],
    [key |-> "oversaw", value |-> "drove enterprise-wide"],
    [key |-> "led", value |-> "spearheaded"],
    [key |-> "improved", value |-> "transformed"],
    [key |-> "created", value |-> "designed and implemented"],
    [key |-> "worked with", value |-> "partnered with"],
    [key |-> "helped", value |-> "enabled"],
    [key |-> "supported", value |-> "facilitated"]>>

\* \b before the character at index i (i = Len(s) + 1: at the end)
WordBoundary(s, i) ==
    (i > 1 /\ IsWordChar(Char(s, i - 1))) # (i <= Len(s) /\ IsWordChar(Char(s, i)))

\* re.sub(rf'\b{old}\b', new, s, flags=re.IGNORECASE), from index from on
RECURSIVE re_sub(_, _, _, _)
re_sub(old, new, s, from) ==
    LET at == {i \in from..(Len(s) - Len(old) + 1) :
                 /\ lower(SubSeq(s, i, i + Len(old) - 1)) = old
                 /\ WordBoundary(s, i)
                 /\ WordBoundary(s, i + Len(old))}
    IN  IF at = {} THEN SubSeq(s, from, Len(s))
        ELSE SubSeq(s, from, Min(at) - 1) \o new \o re_sub(old, new, s, Min(at) + Len(old))

\* one turn of rewrite_bullet_with_keywords's loop
Replace(text, pair) ==
    IF In(pair.key, lower(text)) /\ ~In(pair.value, lower(text))
    THEN re_sub(pair.key, pair.value, text, 1)
    ELSE text

RECURSIVE ReplaceFrom(_, _)
ReplaceFrom(text, i) ==
    IF i > Len(safe_replacements) THEN text
    ELSE ReplaceFrom(Replace(text, safe_replacements[i]), i + 1)

\* the rewrite with an industry context added for a keyword of the posting
rewrite_bullet_with_keywords_industry_context(bullet, kws) ==
    IF InList("healthcare", kws) THEN ReplaceFrom(bullet, 1) \o " for healthcare"
    ELSE ReplaceFrom(bullet, 1)

rewrite_bullet_with_keywords(bullet, kws) == ReplaceFrom(bullet, 1)

-----------------------------------------------------------------------------
(* The Report Assembler.                                                   *)

alternatives == <<
    [key |-> "healthcare", value |-> "Emphasize Accenture healthcare client work"],
    [key |-> "strategic planning", value |-> "Highlight enterprise strategy work at TBWA"],
    [key |-> "cross-functional", value |-> "Emphasize leading 30+ PMs across disciplines"],
    [key |-> "transformation", value |-> "Focus on digital transformation initiatives"],
    [key |-> "stakeholder management", value |-> "Detail executive partnership experience"],
    [key |-> "budget", value |-> "Highlight $70M portfolio P&L responsibility"],
    [key |-> "compliance", value |-> "Mention regulatory work with financial services clients"],
    [key |-> "data", value |-> "Emphasize data analysis and reporting experience"]>>

\* the guidance of the last key found in the keyword
_suggest_alternative_last_key(kw) ==
    LET hits == {i \in 1..Len(alternatives) : In(alternatives[i].key, lower(kw))}
    IN  IF hits = {} THEN <<>>
        ELSE <<alternatives[CHOOSE i \in hits : \A j \in hits : j <= i].value>>

_suggest_alternative(kw) ==
    LET hits == {i \in 1..Len(alternatives) : In(alternatives[i].key, lower(kw))}
    IN  IF hits = {} THEN <<>> ELSE <<alternatives[Min(hits)].value>>

\* the rate without max(1, ...)
MatchRate_no_floor(matched, total) == <<matched, total>>

\* len(matches) / max(1, total), as <<numerator, denominator>>
MatchRate(matched, total) == <<matched, Max(1, total)>>

\* the second loop without its test against matched_words
IsUnmatched_untested(kw, matched_words) == TRUE

\* the test that sends a candidate keyword into the second loop's body
IsUnmatched(kw, matched_words) == strip(lower(kw)) \notin matched_words

\* what the second loop appends for one candidate keyword
Unmatched(kw, matched_words) ==
    IF IsUnmatched(kw, matched_words) /\ _is_forbidden(lower(kw))
    THEN <<[keyword |-> kw, reason |-> "No direct experience - cannot fabricate"]>>
    ELSE <<>>

Suggestion(kw, matched_words) ==
    IF IsUnmatched(kw, matched_words) /\ ~_is_forbidden(lower(kw))
    THEN LET suggestion == _suggest_alternative(kw)
         IN  IF suggestion # <<>>
             THEN <<[missing |-> kw, alternative |-> suggestion[1]]>>
             ELSE <<>>
    ELSE <<>>

generate_keyword_report(text) ==
    LET jk == extract_job_keywords(text)
        ms == match_keywords_to_experience(jk)
        all == Values(jk)
        matched_words == {ms[i].keyword : i \in 1..Len(ms)}
    IN  [total_keywords |-> Len(all),
         matched_keywords |-> Len(ms),
         match_rate |-> MatchRate(Len(ms), Len(all)),
         matched_details |-> [i \in 1..Len(ms) |->
                                [keyword |-> ms[i].keyword,
                                 how_to_include |-> ms[i].resume_context,
                                 confidence |-> ms[i].confidence]],
         unmatched_keywords |-> Flatten([i \in 1..Len(all) |-> Unmatched(all[i], matched_words)]),
         optimization_suggestions |->
             Flatten([i \in 1..Len(all) |-> Suggestion(all[i], matched_words)])]

-----------------------------------------------------------------------------
(* JobPostingExtractor (src/input_handler.py).  What lies outside the      *)
(* program, the file system, the network and the OCR engine, is the        *)
(* argument env of extract_from_source: isfile is os.path.isfile's answer, *)
(* raises holds the message of the exception the access raises, if it      *)
(* raises, and content is the text the access yields.  A value that may be *)
(* None is a sequence of no or one element.                                *)

StartsAt(s, p, i) == i >= 1 /\ i + Len(p) - 1 <= Len(s) /\ SubSeq(s, i, i + Len(p) - 1) = p

\* the last index of the longest run of characters satisfying P that starts at
\* i; i - 1 when the run is empty
RunEnd(s, i, P(_)) ==
    Min({j \in i..(Len(s) + 1) : j = Len(s) + 1 \/ ~P(Char(s, j))}) - 1

\* str.join
RECURSIVE join(_, _)
join(sep, xs) ==
    IF xs = <<>> THEN ""
    ELSE IF Len(xs) = 1 THEN xs[1]
    ELSE join(sep, SubSeq(xs, 1, Len(xs) \div 2)) \o sep
         \o join(sep, SubSeq(xs, Len(xs) \div 2 + 1, Len(xs)))

supported_formats == <<
    [key |-> "screenshot", value |-> <<".png", ".jpg", ".jpeg", ".gif", ".bmp">>],
    [key |-> "pdf", value |-> <<".pdf">>],
    [key |-> "text", value |-> <<".txt", ".md">>],
    [key |-> "url", value |-> <<"http://", "https://">>]>>

Formats(kind) ==
    supported_formats[CHOOSE i \in 1..Len(supported_formats) : supported_formats[i].key = kind].value

_is_url(source) == StartsAt(source, "http://", 1) \/ StartsAt(source, "https://", 1)

\* urlparse(url).netloc of an http(s) URL: what follows "//" up to the next / ? or #
netloc(url) ==
    LET from == Find(url, "//", 1) + 2
    IN  SubSeq(url, from, RunEnd(url, from, LAMBDA c : c \notin {"/", "?", "#"}))

\* os.path.splitext(source)[1]: from the last dot of the last path component,
\* unless that dot only follows leading dots of the component
splitext(source) ==
    LET slashes == {i \in 1..Len(source) : Char(source, i) = "/"}
        base == IF slashes = {} THEN 1 ELSE (CHOOSE i \in slashes : \A j \in slashes : j <= i) + 1
        name == RunEnd(source, base, LAMBDA c : c = ".") + 1
        dots == {i \in (name + 1)..Len(source) : Char(source, i) = "."}
    IN  IF dots = {} THEN ""
        ELSE SubSeq(source, CHOOSE i \in dots : \A j \in dots : j <= i, Len(source))

\* re.sub(r'\s+', ' ', text)
RECURSIVE collapse_whitespace(_)
collapse_whitespace(text) ==
    LET spaces == {i \in 1..Len(text) : IsSpace(Char(text, i))}
        i == Min(spaces)
        j == RunEnd(text, i, IsSpace)
    IN  IF spaces = {} THEN text
        ELSE SubSeq(text, 1, i - 1) \o " " \o collapse_whitespace(SubSeq(text, j + 1, Len(text)))

\* the second substitution replaces a whitespace run between two lower-case
\* letters by a space; after the first one every run is one space already
_clean_ocr_text(text) == strip(collapse_whitespace(text))

_extract_from_screenshot(image_path, env) ==
    IF env.raises # <<>>
    THEN [job_text |-> "", source_type |-> "screenshot",
          extraction_method |-> "OCR (Tesseract)", success |-> FALSE,
          error |-> <<"OCR extraction failed: " \o env.raises[1]>>]
    ELSE [job_text |-> _clean_ocr_text(env.content), source_type |-> "screenshot",
          extraction_method |-> "OCR (Tesseract)", success |-> TRUE, error |-> <<>>]

_extract_from_linkedin(url, env) ==
    [job_text |-> env.content, source_type |-> "url",
     extraction_method |-> "LinkedIn scraping", company |-> "", position |-> "",
     success |-> env.content # "",
     error |-> IF env.content # "" THEN <<>> ELSE <<"Could not extract job description">>]

_extract_generic_webpage(url, env) ==
    LET stripped == [i \in 1..Len(split_on(env.content, "\n")) |->
                        strip(split_on(env.content, "\n")[i])]
        text == join("\n", SelectSeq(stripped, LAMBDA line : line # ""))
    IN  [job_text |-> text, source_type |-> "url",
         extraction_method |-> "Generic web scraping", success |-> text # "",
         error |-> IF text # "" THEN <<>> ELSE <<"Could not extract content">>]

\* the message of the AttributeError a call of a method the class lacks raises
NoAttribute(name) == "'JobPostingExtractor' object has no attribute '" \o name \o "'"

UrlFailure(message) ==
    [job_text |-> "", source_type |-> "url", extraction_method |-> "web_scraping",
     success |-> FALSE, error |-> <<"URL extraction failed: " \o message>>]

_extract_from_url(url, env) ==
    LET domain == netloc(url)
    IN  IF In("linkedin.com", domain)
        THEN IF env.raises # <<>> THEN UrlFailure(env.raises[1])
             ELSE _extract_from_linkedin(url, env)
        ELSE IF In("indeed.com", domain) THEN UrlFailure(NoAttribute("_extract_from_indeed"))
        ELSE IF In("glassdoor.com", domain)
        THEN UrlFailure(NoAttribute("_extract_from_glassdoor"))
        ELSE IF env.raises # <<>> THEN UrlFailure(env.raises[1])
        ELSE _extract_generic_webpage(url, env)

_extract_from_pdf(pdf_path, env) ==
    IF env.raises # <<>>
    THEN [job_text |-> "", source_type |-> "pdf", extraction_method |-> "PyPDF2",
          success |-> FALSE, error |-> <<"PDF extraction failed: " \o env.raises[1]>>]
    ELSE [job_text |-> env.content, source_type |-> "pdf", extraction_method |-> "PyPDF2",
          success |-> TRUE, error |-> <<>>]

_extract_from_text_file(file_path, env) ==
    [job_text |-> env.content, source_type |-> "text_file",
     extraction_method |-> "Direct file read", success |-> TRUE, error |-> <<>>]

_extract_from_text(text) ==
    [job_text |-> text, source_type |-> "raw_text", extraction_method |-> "Direct input",
     success |-> TRUE, error |-> <<>>]

\* re.search(pattern, text): the group of the match at the leftmost index at
\* which the pattern matches, as a sequence of no or one string; At(text, i) is
\* <<first, last>> of the group of the match starting at i, or <<>>
Search(text, At(_, _)) ==
    LET hits == {i \in 1..Len(text) : At(text, i) # <<>>}
        group == At(text, Min(hits))
    IN  IF hits = {} THEN <<>> ELSE <<SubSeq(text, group[1], group[2])>>

\* (?:w1|w2|...) at i: the last index of the alternative that matches there, or 0
WordEnd(s, words, i) ==
    LET k == {n \in 1..Len(words) : StartsAt(s, words[n], i)}
    IN  IF k = {} THEN 0 ELSE i + Len(words[Min(k)]) - 1

Last(S) == CHOOSE m \in S : \A n \in S : n <= m

\* [\s:]
IsSeparator(c) == IsSpace(c) \/ c = ":"

\* [A-Za-z\s,\-]
IsPositionChar(c) == IsAlpha(c) \/ IsSpace(c) \/ c \in {",", "-"}

\* [A-Za-z\s&,]
IsCompanyChar(c) == IsAlpha(c) \/ IsSpace(c) \/ c \in {"&", ","}

\* [\s:]+([A-Za-z\s,\-]+) after index w: the greedy separators give back
\* characters until a character of the group's class follows
LabelledPosition(s, w) ==
    LET e == RunEnd(s, w + 1, IsSeparator)
        starts == {g \in (w + 2)..(e + 1) : g <= Len(s) /\ IsPositionChar(Char(s, g))}
    IN  IF w = 0 \/ starts = {} THEN <<>>
        ELSE <<Last(starts), RunEnd(s, Last(starts), IsPositionChar)>>

\* (?:Position|Title|Role)[\s:]+([A-Za-z\s,\-]+)
PositionLabel(s, i) == LabelledPosition(s, WordEnd(s, <<"Position", "Title", "Role">>, i))

\* (?:Job\s+Title)[\s:]+([A-Za-z\s,\-]+)
PositionJobTitle(s, i) ==
    LET e == RunEnd(s, i + 3, IsSpace)
    IN  IF StartsAt(s, "Job", i) /\ e >= i + 3 /\ StartsAt(s, "Title", e + 1)
        THEN LabelledPosition(s, e + 5)
        ELSE <<>>

\* ^([A-Z][A-Za-z\s,\-]+)(?:\n|$) with re.MULTILINE: from the start of a line, the
\* longest run that ends at the end of a line
PositionFirstLine(s, i) ==
    LET e == RunEnd(s, i + 1, IsPositionChar)
        ends == {g \in (i + 1)..e : g = Len(s) \/ Char(s, g + 1) = "\n"}
    IN  IF (i = 1 \/ Char(s, i - 1) = "\n") /\ IsUpper(Char(s, i)) /\ ends # {}
        THEN <<i, Last(ends)>>
        ELSE <<>>

\* (?:Seeking|Hiring)\s+(?:a\s+)?([A-Z][A-Za-z\s,\-]+)
PositionSeeking(s, i) ==
    LET w == WordEnd(s, <<"Seeking", "Hiring">>, i)
        e == RunEnd(s, w + 1, IsSpace)
        a == RunEnd(s, e + 2, IsSpace)
        g == IF StartsAt(s, "a", e + 1) /\ a >= e + 2 THEN a + 1 ELSE e + 1
    IN  IF w # 0 /\ e >= w + 1 /\ g + 1 <= Len(s) /\ IsUpper(Char(s, g))
            /\ IsPositionChar(Char(s, g + 1))
        THEN <<g, RunEnd(s, g + 1, IsPositionChar)>>
        ELSE <<>>

\* str.replace(old, new) for a one-character old
replace(s, old, new) == join(new, split_on(s, old))

\* the position a match of a pattern yields, if it passes the sanity check
PositionOf(match) ==
    LET position == strip(replace(strip(match[1]), "\n", " "))
    IN  IF match # <<>> /\ Len(position) > 5 /\ Len(position) < 100 THEN <<position>> ELSE <<>>

_extract_position(text) ==
    LET found_positions ==
            PositionOf(Search(text, PositionLabel))
            \o PositionOf(Search(text, PositionJobTitle))
            \o PositionOf(Search(text, PositionFirstLine))
            \o PositionOf(Search(text, PositionSeeking))
    IN  IF found_positions = <<>> THEN "" ELSE found_positions[1]

\* label [\s:]+ or \s+ then ([A-Z][A-Za-z\s&,]+), the label ending at index w
LabelledCompany(s, w, IsGap(_)) ==
    LET e == RunEnd(s, w + 1, IsGap)
    IN  IF w # 0 /\ e >= w + 1 /\ e + 2 <= Len(s) /\ IsUpper(Char(s, e + 1))
            /\ IsCompanyChar(Char(s, e + 2))
        THEN <<e + 1, RunEnd(s, e + 2, IsCompanyChar)>>
        ELSE <<>>

\* (?:Company|Employer|Organization)[\s:]+([A-Z][A-Za-z\s&,]+)
CompanyLabel(s, i) ==
    LabelledCompany(s, WordEnd(s, <<"Company", "Employer", "Organization">>, i), IsSeparator)

\* About\s+([A-Z][A-Za-z\s&,]+)
CompanyAbout(s, i) == LabelledCompany(s, WordEnd(s, <<"About">>, i), IsSpace)

\* Join\s+([A-Z][A-Za-z\s&,]+)
CompanyJoin(s, i) == LabelledCompany(s, WordEnd(s, <<"Join">>, i), IsSpace)

\* \s+is\s+(?:seeking|hiring|looking) after index g
IsSeekingAfter(s, g) ==
    LET e == RunEnd(s, g + 1, IsSpace)
        f == RunEnd(s, e + 3, IsSpace)
    IN  /\ e >= g + 1
        /\ StartsAt(s, "is", e + 1)
        /\ f >= e + 3
        /\ WordEnd(s, <<"seeking", "hiring", "looking">>, f + 1) # 0

\* ([A-Z][A-Za-z\s&,]+)\s+is\s+(?:seeking|hiring|looking): the greedy group gives
\* back characters until the rest of the pattern follows
CompanyIsSeeking(s, i) ==
    LET e == RunEnd(s, i + 1, IsCompanyChar)
        ends == {g \in (i + 1)..e : IsSeekingAfter(s, g)}
    IN  IF IsUpper(Char(s, i)) /\ ends # {} THEN <<i, Last(ends)>> ELSE <<>>

suffixes == <<"Inc", "LLC", "Ltd", "Corp", "Corporation">>

\* re.sub(r'\s+(Inc|LLC|Ltd|Corp|Corporation)\.?$', '', company)
strip_suffix(company) ==
    LET cuts == {i \in 1..Len(company) :
                    /\ IsSpace(Char(company, i))
                    /\ \E k \in 1..Len(suffixes) : \E dot \in {"", "."} :
                          LET rest == SubSeq(company, RunEnd(company, i, IsSpace) + 1, Len(company))
                          IN  \/ rest = suffixes[k] \o dot
                              \/ rest = suffixes[k] \o dot \o "\n"}
    IN  IF cuts = {} THEN company ELSE SubSeq(company, 1, Min(cuts) - 1)

_extract_company(text) ==
    LET found_companies ==
            Search(text, CompanyLabel) \o Search(text, CompanyAbout)
            \o Search(text, CompanyJoin) \o Search(text, CompanyIsSeeking)
    IN  IF found_companies = <<>> THEN "" ELSE strip_suffix(strip(found_companies[1]))

\* result with the keys company and position set
WithCompanyAndPosition(result, company, position) ==
    [k \in DOMAIN result \cup {"company", "position"} |->
        IF k = "company" THEN company
        ELSE IF k = "position" THEN position
        ELSE result[k]]

extract_from_source(source, env) ==
    LET initial == [job_text |-> "", source_type |-> "", company |-> "", position |-> "",
                    extraction_method |-> "", success |-> FALSE, error |-> <<>>]
        ext == lower(splitext(source))
        raised == ~_is_url(source) /\ env.isfile /\ InList(ext, Formats("text"))
                    /\ env.raises # <<>>
        result ==
            IF _is_url(source) THEN _extract_from_url(source, env)
            ELSE IF env.isfile
            THEN IF InList(ext, Formats("screenshot")) THEN _extract_from_screenshot(source, env)
                 ELSE IF InList(ext, Formats("pdf")) THEN _extract_from_pdf(source, env)
                 ELSE IF InList(ext, Formats("text")) THEN _extract_from_text_file(source, env)
                 ELSE initial
            ELSE _extract_from_text(source)
    IN  IF raised THEN [initial EXCEPT !.error = <<env.raises[1]>>]
        ELSE IF result.success
        THEN WithCompanyAndPosition(result, _extract_company(result.job_text),
                                    _extract_position(result.job_text))
        ELSE result

-----------------------------------------------------------------------------
(* ResumeRetoolSystem (src/main.py).  __init__ hands its user_base_data to *)
(* KeywordOptimizer, which keeps the same object as user_data: the         *)
(* variable user_data is both.  kr is the keyword_report of a run.          *)

\* xs[:n]
Take(xs, n) == SubSeq(xs, 1, IF n <= Len(xs) THEN n ELSE Len(xs))

RECURSIVE Spaces(_)
Spaces(n) ==
    IF n <= 0 THEN ""
    ELSE IF n = 1 THEN " "
    ELSE Spaces(n \div 2) \o Spaces(n - n \div 2)

\* format(s, '<n') and format(s, '>n')
ljust(s, n) == s \o Spaces(n - Len(s))

rjust(s, n) == Spaces(n - Len(s)) \o s

\* str(list) for a list of strings, up to the escapes of repr
str(xs) == "[" \o join(", ", [i \in 1..Len(xs) |-> "'" \o xs[i] \o "'"]) \o "]"

\* {m['keyword'].lower() for m in keyword_report['matched_details']}
MatchedKeywords(kr) ==
    {lower(kr.matched_details[i].keyword) :
        i \in 1..Len(kr.matched_details)}

\* the first element of xs that satisfies P, if there is one
First(xs, P(_)) ==
    LET at == {i \in 1..Len(xs) : P(xs[i])}
    IN  IF at = {} THEN <<>> ELSE <<xs[Min(at)]>>

\* the loop over all_experiences[1:5] of _select_relevant_experiences: every role
\* not selected yet is appended, until four are selected
RECURSIVE Backfill(_, _)
Backfill(selected, rest) ==
    IF rest = <<>> THEN selected
    ELSE LET appended == IF InList(Head(rest), selected) THEN selected
                         ELSE Append(selected, Head(rest))
         IN  IF Len(appended) >= 4 THEN appended ELSE Backfill(appended, Tail(rest))

_select_relevant_experiences_triggered_only(kr) ==
    LET all_experiences == user_data.experience
        matched_keywords == MatchedKeywords(kr)
        current == <<all_experiences[1]>>
        healthcare ==
            IF {"healthcare", "health", "enterprise", "transformation"} \cap matched_keywords # {}
            THEN Append(current, all_experiences[2])
            ELSE current
        leadership ==
            IF {"leadership", "executive", "vp", "vice president", "director"}
                    \cap matched_keywords # {}
            THEN healthcare \o First(all_experiences,
                                     LAMBDA exp : In("Y&R", exp.company)
                                                    /\ ~InList(exp, healthcare))
            ELSE healthcare
        digital ==
            IF {"digital", "production", "operational"} \cap matched_keywords # {}
            THEN leadership \o First(all_experiences,
                                     LAMBDA exp : In("PUBLICIS", exp.company)
                                                    /\ ~InList(exp, leadership))
            ELSE leadership
    IN  Take(digital, 5)

\* the last loop without its test "exp not in selected"
_select_relevant_experiences_fill_unchecked(kr) ==
    LET all_experiences == user_data.experience
        matched_keywords == MatchedKeywords(kr)
        current == <<all_experiences[1]>>
        healthcare ==
            IF {"healthcare", "health", "enterprise", "transformation"} \cap matched_keywords # {}
            THEN Append(current, all_experiences[2])
            ELSE current
        leadership ==
            IF {"leadership", "executive", "vp", "vice president", "director"}
                    \cap matched_keywords # {}
            THEN healthcare \o First(all_experiences,
                                     LAMBDA exp : In("Y&R", exp.company)
                                                    /\ ~InList(exp, healthcare))
            ELSE healthcare
        digital ==
            IF {"digital", "production", "operational"} \cap matched_keywords # {}
            THEN leadership \o First(all_experiences,
                                     LAMBDA exp : In("PUBLICIS", exp.company)
                                                    /\ ~InList(exp, leadership))
            ELSE leadership
        freelance ==
            IF Len(digital) < 3
            THEN digital \o First(all_experiences,
                                  LAMBDA exp : In("FREELANCE", exp.company)
                                                 /\ In("2017", exp.dates))
            ELSE digital
        selected ==
            IF Len(freelance) < 3
            THEN freelance \o SubSeq(all_experiences, 2, 5 - Len(freelance))
            ELSE freelance
    IN  Take(selected, 5)

\* the selection without the step that adds the 2017 freelance role
_select_relevant_experiences_no_freelance(kr) ==
    LET all_experiences == user_data.experience
        matched_keywords == MatchedKeywords(kr)
        current == <<all_experiences[1]>>
        healthcare ==
            IF {"healthcare", "health", "enterprise", "transformation"} \cap matched_keywords # {}
            THEN Append(current, all_experiences[2])
            ELSE current
        leadership ==
            IF {"leadership", "executive", "vp", "vice president", "director"}
                    \cap matched_keywords # {}
            THEN healthcare \o First(all_experiences,
                                     LAMBDA exp : In("Y&R", exp.company)
                                                    /\ ~InList(exp, healthcare))
            ELSE healthcare
        digital ==
            IF {"digital", "production", "operational"} \cap matched_keywords # {}
            THEN leadership \o First(all_experiences,
                                     LAMBDA exp : In("PUBLICIS", exp.company)
                                                    /\ ~InList(exp, leadership))
            ELSE leadership
        freelance ==
            IF FALSE
            THEN digital \o First(all_experiences,
                                  LAMBDA exp : In("FREELANCE", exp.company)
                                                 /\ In("2017", exp.dates))
            ELSE digital
        selected ==
            IF Len(freelance) < 3
            THEN Backfill(freelance, SubSeq(all_experiences, 2,
                                            IF Len(all_experiences) < 5
                                            THEN Len(all_experiences) ELSE 5))
            ELSE freelance
    IN  Take(selected, 5)

\* the selection without the trigger of the Publicis role
_select_relevant_experiences_no_digital(kr) ==
    LET all_experiences == user_data.experience
        matched_keywords == MatchedKeywords(kr)
        current == <<all_experiences[1]>>
        healthcare ==
            IF {"healthcare", "health", "enterprise", "transformation"} \cap matched_keywords # {}
            THEN Append(current, all_experiences[2])
            ELSE current
        leadership ==
            IF {"leadership", "executive", "vp", "vice president", "director"}
                    \cap matched_keywords # {}
            THEN healthcare \o First(all_experiences,
                                     LAMBDA exp : In("Y&R", exp.company)
                                                    /\ ~InList(exp, healthcare))
            ELSE healthcare
        digital ==
            IF FALSE
            THEN leadership \o First(all_experiences,
                                     LAMBDA exp : In("PUBLICIS", exp.company)
                                                    /\ ~InList(exp, leadership))
            ELSE leadership
        freelance ==
            IF Len(digital) < 3
            THEN digital \o First(all_experiences,
                                  LAMBDA exp : In("FREELANCE", exp.company)
                                                 /\ In("2017", exp.dates))
            ELSE digital
        selected ==
            IF Len(freelance) < 3
            THEN Backfill(freelance, SubSeq(all_experiences, 2,
                                            IF Len(all_experiences) < 5
                                            THEN Len(all_experiences) ELSE 5))
            ELSE freelance
    IN  Take(selected, 5)

_select_relevant_experiences(kr) ==
    LET all_experiences == user_data.experience
        matched_keywords == MatchedKeywords(kr)
        current == <<all_experiences[1]>>
        healthcare ==
            IF {"healthcare", "health", "enterprise", "transformation"} \cap matched_keywords # {}
            THEN Append(current, all_experiences[2])
            ELSE current
        leadership ==
            IF {"leadership", "executive", "vp", "vice president", "director"}
                    \cap matched_keywords # {}
            THEN healthcare \o First(all_experiences,
                                     LAMBDA exp : In("Y&R", exp.company)
                                                    /\ ~InList(exp, healthcare))
            ELSE healthcare
        digital ==
            IF {"digital", "production", "operational"} \cap matched_keywords # {}
            THEN leadership \o First(all_experiences,
                                     LAMBDA exp : In("PUBLICIS", exp.company)
                                                    /\ ~InList(exp, leadership))
            ELSE leadership
        freelance ==
            IF Len(digital) < 3
            THEN digital \o First(all_experiences,
                                  LAMBDA exp : In("FREELANCE", exp.company)
                                                 /\ In("2017", exp.dates))
            ELSE digital
        selected ==
            IF Len(freelance) < 3
            THEN Backfill(freelance, SubSeq(all_experiences, 2,
                                            IF Len(all_experiences) < 5
                                            THEN Len(all_experiences) ELSE 5))
            ELSE freelance
    IN  Take(selected, 5)

\* the summary keyed on every match of the report, not the first three
_optimize_summary_all_matches(kr) ==
    LET key_matches == [i \in 1..Len(kr.matched_details) |->
                            kr.matched_details[i].keyword]
        listed == lower(str(key_matches))
    IN  "Highly accomplished executive with 20+ years driving "
        \o (IF In("strategic", listed) THEN "strategic initiatives and " ELSE "")
        \o (IF In("healthcare", listed)
            THEN "transformation in healthcare and complex organizations. "
            ELSE "operational excellence in complex organizations. ")
        \o "Proven track record of translating enterprise strategies into actionable plans, "
        \o "leading cross-functional teams, and delivering measurable outcomes. "
        \o (IF In("change", listed)
            THEN "Expert change agent driving organizational transformation."
            ELSE "Expert in scalable solution deployment and continuous improvement.")

_optimize_summary(kr) ==
    LET key_matches == [i \in 1..Len(Take(kr.matched_details, 3)) |->
                            kr.matched_details[i].keyword]
        listed == lower(str(key_matches))
    IN  "Highly accomplished executive with 20+ years driving "
        \o (IF In("strategic", listed) THEN "strategic initiatives and " ELSE "")
        \o (IF In("healthcare", listed)
            THEN "transformation in healthcare and complex organizations. "
            ELSE "operational excellence in complex organizations. ")
        \o "Proven track record of translating enterprise strategies into actionable plans, "
        \o "leading cross-functional teams, and delivering measurable outcomes. "
        \o (IF In("change", listed)
            THEN "Expert change agent driving organizational transformation."
            ELSE "Expert in scalable solution deployment and continuous improvement.")

\* the skills no matched keyword is found in, before the others
_reorder_skills_remaining_first(kr) ==
    LET IsMatched(skill) == \E k \in MatchedKeywords(kr) : In(k, lower(skill))
    IN  SelectSeq(user_data.skills, LAMBDA skill : ~IsMatched(skill))
        \o SelectSeq(user_data.skills, IsMatched)

_reorder_skills(kr) ==
    LET matched_keywords == MatchedKeywords(kr)
        wanted(skill) == \E kw \in matched_keywords : In(kw, lower(skill))
    IN  SelectSeq(user_data.skills, wanted)
        \o SelectSeq(user_data.skills, LAMBDA skill : ~wanted(skill))

_optimize_bullets(bullets, kr) ==
    LET matched_keywords == [i \in 1..Len(kr.matched_details) |->
                                kr.matched_details[i].keyword]
    IN  [i \in 1..Len(bullets) |-> rewrite_bullet_with_keywords(bullets[i], matched_keywords)]

\* the lines _generate_optimized_resume writes for one role
ExperienceText(exp, kr) ==
    LET optimized_bullets == _optimize_bullets(exp.bullets, kr)
        shown == Take(optimized_bullets, 5)
    IN  ljust(exp.company, 50) \o " " \o rjust(exp.dates, 20) \o "\n"
        \o exp.title \o "\n"
        \o join("", [i \in 1..Len(shown) |-> bullet_mark \o " " \o shown[i] \o "\n"])
        \o "\n"

_generate_optimized_resume(extraction, kr) ==
    LET position == IF "position" \in DOMAIN extraction THEN extraction.position
                    ELSE "Target Position"
        optimized_skills == Take(_reorder_skills(kr), 12)
        relevant_experiences == _select_relevant_experiences(kr)
        education == user_data.education
    IN  user_data.full_name \o "\n"
        \o user_data.contact \o "\n\n"
        \o position \o " Candidate | " \o user_data.title \o "\n\n"
        \o "PROFESSIONAL SUMMARY\n"
        \o _optimize_summary(kr)
        \o "\n\n"
        \o "CORE COMPETENCIES\n"
        \o join("", [i \in 1..Len(optimized_skills) |->
                        bullet_mark \o " " \o optimized_skills[i] \o "\n"])
        \o "\n"
        \o "PROFESSIONAL EXPERIENCE\n\n"
        \o join("", [i \in 1..Len(relevant_experiences) |->
                        ExperienceText(relevant_experiences[i], kr)])
        \o "EDUCATION\n"
        \o join("", [i \in 1..Len(education) |->
                        education[i].degree \o " | " \o education[i].school \o "\n"])

-----------------------------------------------------------------------------
(* ProfessionalResumePDF._parse_resume_text (src/pdf_generator_pro.py),    *)
(* which create_professional_pdf applies to the resume text it is given.   *)

RECURSIVE upper(_)
upper(s) ==
    IF Len(s) = 0 THEN ""
    ELSE IF Len(s) = 1 THEN UpperChar(s)
    ELSE upper(SubSeq(s, 1, Len(s) \div 2)) \o upper(SubSeq(s, Len(s) \div 2 + 1, Len(s)))

\* any(keyword in line.upper() for keyword in words)
AnyIn(words, line) == \E i \in 1..Len(words) : In(words[i], upper(line))

\* str.rsplit(' ', maxsplit)
RECURSIVE rsplit(_, _)
rsplit(s, maxsplit) ==
    LET spaces == {i \in 1..Len(s) : Char(s, i) = " "}
        p == Last(spaces)
    IN  IF maxsplit = 0 \/ spaces = {} THEN <<s>>
        ELSE Append(rsplit(SubSeq(s, 1, p - 1), maxsplit - 1), SubSeq(s, p + 1, Len(s)))

years == <<"2020", "2021", "2022", "2023", "2024", "2025">>

\* the role a company line opens: the line is cut at its last four spaces and
\* the dates start at the first part that holds a dash
NewExperience(line) ==
    LET parts == rsplit(line, 4)
        dashed == {j \in 1..Len(parts) : In(en_dash, parts[j]) \/ In("-", parts[j])}
        j == Min(dashed)
        dates == IF dashed = {} THEN "" ELSE join(" ", SubSeq(parts, j, Len(parts)))
        company == IF dashed = {} THEN line ELSE join(" ", SubSeq(parts, 1, j - 1))
    IN  [company |-> strip(company), dates |-> strip(dates), title |-> "", bullets |-> <<>>]

\* the summary is set, once, from the lines collected for it
WithSummary(st) ==
    IF st.summary_lines # <<>> /\ st.resume_data.summary = ""
    THEN [st EXCEPT !.resume_data.summary = join(" ", st.summary_lines)]
    ELSE st

\* the role being read, if any, is appended to the experience
WithCurrentExp(st) ==
    IF st.current_exp # <<>>
    THEN [st EXCEPT !.resume_data.experience = Append(@, st.current_exp[1])]
    ELSE st

\* the else branch of the loop: a content line of the current section
ParseContent(st, line) ==
    IF st.current_section = "summary"
    THEN IF ~AnyIn(<<"CORE COMPETENCIES", "SKILLS", "PROFESSIONAL EXPERIENCE">>, line)
         THEN [st EXCEPT !.summary_lines = Append(@, line)]
         ELSE st
    ELSE IF st.current_section = "skills"
    THEN IF StartsAt(line, bullet_mark, 1)
         THEN [st EXCEPT !.resume_data.skills = Append(@, strip(SubSeq(line, 2, Len(line))))]
         ELSE IF ~AnyIn(<<"PROFESSIONAL", "EXPERIENCE", "EDUCATION">>, line)
         THEN [st EXCEPT !.resume_data.skills = Append(@, line)]
         ELSE st
    ELSE IF st.current_section = "experience"
    THEN IF (\E y \in 1..Len(years) : In(years[y], line)) /\ In(en_dash, line)
         THEN [WithCurrentExp(st) EXCEPT !.current_exp = <<NewExperience(line)>>]
         ELSE IF st.current_exp # <<>> /\ st.current_exp[1].title = ""
                    /\ ~StartsAt(line, bullet_mark, 1)
         THEN [st EXCEPT !.current_exp[1].title = line]
         ELSE IF st.current_exp # <<>> /\ StartsAt(line, bullet_mark, 1)
         THEN [st EXCEPT !.current_exp[1].bullets =
                            Append(@, strip(SubSeq(line, 2, Len(line))))]
         ELSE st
    ELSE IF st.current_section = "education"
    THEN LET parts == split_on(line, "|")
             edu_entry ==
                IF In("|", line)
                THEN [degree |-> strip(parts[1]),
                      school |-> IF Len(parts) > 1 THEN strip(parts[2]) ELSE "",
                      year |-> IF Len(parts) > 2 THEN strip(parts[3]) ELSE ""]
                ELSE [degree |-> line, school |-> "", year |-> ""]
         IN  [st EXCEPT !.resume_data.education = Append(@, edu_entry)]
    ELSE st

\* one pass of the loop, for the stripped, non-empty line at index i (from 0)
ParseLine(st, i, line) ==
    IF i = 0 THEN [st EXCEPT !.resume_data.full_name = line]
    ELSE IF i = 1 THEN [st EXCEPT !.resume_data.contact = line]
    ELSE IF i = 2 /\ (In("|", line) \/ In("Candidate", line))
    THEN [st EXCEPT !.resume_data.title = line]
    ELSE IF In("PROFESSIONAL SUMMARY", upper(line))
    THEN [st EXCEPT !.current_section = "summary", !.summary_lines = <<>>]
    ELSE IF In("CORE COMPETENCIES", upper(line)) \/ In("SKILLS", upper(line))
    THEN [WithSummary(st) EXCEPT !.current_section = "skills"]
    ELSE IF In("PROFESSIONAL EXPERIENCE", upper(line)) \/ In("WORK EXPERIENCE", upper(line))
    THEN [st EXCEPT !.current_section = "experience"]
    ELSE IF In("EDUCATION", upper(line))
    THEN [WithCurrentExp(st) EXCEPT !.current_section = "education", !.current_exp = <<>>]
    ELSE ParseContent(st, line)

\* one turn of the while loop: the line at index i is stripped, a blank line is
\* skipped, and i moves on
ParseStep(st, lines) ==
    LET line == strip(lines[st.i + 1])
    IN  [(IF line = "" THEN st ELSE ParseLine(st, st.i, line)) EXCEPT !.i = @ + 1]

\* while i < stop: the turns up to the middle of the range, then the others
RECURSIVE ParseLines(_, _, _)
ParseLines(st, lines, stop) ==
    IF st.i >= stop THEN st
    ELSE IF stop - st.i = 1 THEN ParseStep(st, lines)
    ELSE ParseLines(ParseLines(st, lines, (st.i + stop) \div 2), lines, stop)

_parse_resume_text(text) ==
    LET lines == split_on(strip(text), "\n")
        st == ParseLines([resume_data |-> [full_name |-> "", contact |-> "", title |-> "",
                                           summary |-> "", skills |-> <<>>,
                                           experience |-> <<>>, education |-> <<>>],
                          current_section |-> "", current_exp |-> <<>>,
                          summary_lines |-> <<>>, i |-> 0],
                         lines, Len(lines))
    IN  WithSummary(WithCurrentExp(st)).resume_data

-----------------------------------------------------------------------------
(* The arguments the operations are called with.                           *)

MaxKeywords == 2

SeqsUpTo(S, n) == UNION {[1..k -> S] : k \in 0..n}

\* candidate keywords: forbidden phrases in several cases, a phrase of the verified
\* domains, words of the records, synonyms, an unknown word and blanks
KeywordPool == {
    "PMP", "Scrum Master", "physician",
    "lead", "executive", "supervise", "python", "", " "}

\* keywords as match_keywords_to_experience passes them to _find_experience_match
FindKeywords ==
    {strip(lower(k)) : k \in KeywordPool}
    \cup {"healthcare", "agile", "change management", "project management",
          "nurse practitioner", "strategy", "digital transformation"}

\* dicts of categorized keywords, as extract_job_keywords lays them out
JobKeywordSets ==
    {<<[key |-> "required_skills", value |-> a],
       [key |-> "responsibilities", value |-> b]>> :
        <<a, b>> \in {p \in SeqsUpTo(KeywordPool, MaxKeywords) \X SeqsUpTo(KeywordPool, MaxKeywords) :
                        Len(p[1]) + Len(p[2]) <= MaxKeywords}}

\* job postings: the module's example, bulleted sections, forbidden terms in
\* several cases, blank items, prose without any keyword, and the empty text
JobTexts == {
    "",
    "We are hiring",
    "\n    Vice President, DUALS Strategic Initiatives\n    Required: Healthcare experience, strategic planning, change management\n    Must have experience leading cross-functional teams\n    ",
    "Required:\n- PMP certification\n- agile\n- Scrum Master\nPreferred:\n- python",
    "Qualifications\n* physician license\n* budget planning\n* change management\nResponsibilities\n* lead",
    "Lead the healthcare transformation. Manage stakeholder management. Coding is a plus.",
    "Required: - \n",
    "Must have:\n- PMP\n- Six Sigma\nNice to have:\n- ITIL",
    "Required skills\n- data analysis\n- compliance\n- nurse training\nDesired\n- executive",
    "Medicaid and Medicare health plan. CMS regulatory. Oversee clinical practice.",
    "required: * lead * lead * healthcare",
    "Must have - supervise - stakeholder management. Drive execution.",
    "Required:\n- compliance data\n- data budget\n- quantum computing",
    "Design and implement roadmaps. Travel is rare.  MONITOR budgets . Design and implement roadmaps."}

\* bullets: those of the records, and bullets that meet the replacement table
\* in other ways (a replacement already present, a word inside another, capitals)
Bullets ==
    UNION {Range(exp.bullets) : exp \in Range(MainRecord.experience) \cup Range(SampleRecord.experience)}
    \cup {"",
          "Managed the department",
          "Led the team and managed budgets",
          "Strategically led the group and managed vendors",
          "Misled by data, helped the team",
          "Worked with clients and supported sales",
          "Created and improved reports; WORKED WITH finance",
          "Spearheaded the launch, led the rollout",
          "Oversaw and supported the enterprise-wide rollout"}

KeywordLists == {<<>>, <<"manage">>, <<"healthcare", "digital">>}

\* keywords _get_synonyms is asked about: the keys and the values of synonym_map,
\* a keyword holding a key, and keywords of no group
SynonymKeywords ==
    {synonym_map[i].key : i \in 1..Len(synonym_map)}
    \cup UNION {Range(synonym_map[i].value) : i \in 1..Len(synonym_map)}
    \cup {"stakeholder management", "python", ""}

-----------------------------------------------------------------------------
(* The state machine: a KeywordOptimizer is constructed, then its methods  *)
(* are called one at a time; Return is the caller dropping a result.       *)

None == <<>>

\* the runs of main() that are followed
Runs == {"a", "b"}

Init ==
    /\ user_data \in Records
    /\ experience_keywords = _extract_resume_keywords(user_data)
    /\ verified_domains = VerifiedDomains
    /\ forbidden_keywords = ForbiddenKeywords
    /\ phase = "idle"
    /\ keyword = ""
    /\ found = None
    /\ job_keywords = <<>>
    /\ matches = <<>>
    /\ prev_matches = <<>>
    /\ job_text = ""
    /\ report = None
    /\ original_bullet = ""
    /\ keywords = <<>>
    /\ rewritten = ""
    /\ extracted = <<>>
    /\ prev_extracted = <<>>
    /\ prev_rewritten = ""
    /\ synonyms_returned = <<>>
    /\ selected_experiences = <<>>
    /\ optimized_summary = ""
    /\ pc = [r \in Runs |-> "start"]
    /\ input_source = [r \in Runs |-> <<>>]
    /\ extraction_result = [r \in Runs |-> <<>>]
    /\ keyword_report = [r \in Runs |-> <<>>]
    /\ customized_resume = [r \in Runs |-> <<>>]
    /\ results = [r \in Runs |-> <<>>]
    /\ saved = [r \in Runs |-> <<>>]

FindCall(kw) ==
    /\ phase = "idle"
    /\ keyword' = kw
    /\ found' = _find_experience_match(kw)
    /\ phase' = "found"
    /\ UNCHANGED <<optimizer, system, outcomes, extracted, prev_extracted,
                   job_keywords, matches, prev_matches, job_text, report,
                   original_bullet, keywords, rewritten>>

MatchCall(jk) ==
    /\ phase = "idle"
    /\ job_keywords' = jk
    /\ matches' = match_keywords_to_experience(jk)
    /\ phase' = "matched"
    /\ UNCHANGED <<optimizer, system, outcomes, extracted, prev_extracted,
                   keyword, found, prev_matches, job_text, report,
                   original_bullet, keywords, rewritten>>

\* the same argument passed a second time
MatchAgain ==
    /\ phase = "matched"
    /\ prev_matches' = matches
    /\ matches' = match_keywords_to_experience(job_keywords)
    /\ phase' = "matched_twice"
    /\ UNCHANGED <<optimizer, system, outcomes, extracted, prev_extracted,
                   keyword, found, job_keywords, job_text, report,
                   original_bullet, keywords, rewritten>>

ReportCall(text) ==
    /\ phase = "idle"
    /\ job_text' = text
    /\ report' = generate_keyword_report(text)
    /\ phase' = "reported"
    /\ UNCHANGED <<optimizer, system, outcomes, extracted, prev_extracted,
                   keyword, found, job_keywords, matches, prev_matches,
                   original_bullet, keywords, rewritten>>

RewriteCall(bullet, kws) ==
    /\ phase = "idle"
    /\ original_bullet' = bullet
    /\ keywords' = kws
    /\ rewritten' = rewrite_bullet_with_keywords(bullet, kws)
    /\ phase' = "rewritten"
    /\ UNCHANGED <<optimizer, system, outcomes, extracted, prev_extracted,
                   keyword, found, job_keywords, matches, prev_matches,
                   job_text, report>>

\* the bullet just rewritten passed again, with the same keywords
RewriteAgain ==
    /\ phase = "rewritten"
    /\ prev_rewritten' = rewritten
    /\ rewritten' = rewrite_bullet_with_keywords(rewritten, keywords)
    /\ phase' = "rewritten_again"
    /\ UNCHANGED <<optimizer, system, extracted, prev_extracted, keyword, found, job_keywords,
                   matches, prev_matches, job_text, report, original_bullet, keywords,
                   synonyms_returned, selected_experiences, optimized_summary>>

\* the same bullet passed again, with other keywords
RewriteOther(kws) ==
    /\ phase = "rewritten"
    /\ prev_rewritten' = rewritten
    /\ keywords' = kws
    /\ rewritten' = rewrite_bullet_with_keywords(original_bullet, kws)
    /\ phase' = "rewritten_other"
    /\ UNCHANGED <<optimizer, system, extracted, prev_extracted, keyword, found, job_keywords,
                   matches, prev_matches, job_text, report, original_bullet,
                   synonyms_returned, selected_experiences, optimized_summary>>

SynonymsCall(kw) ==
    /\ phase = "idle"
    /\ keyword' = kw
    /\ synonyms_returned' = _get_synonyms(kw)
    /\ phase' = "synonyms"
    /\ UNCHANGED <<optimizer, system, found, job_keywords, matches, prev_matches, job_text,
                   report, original_bullet, keywords, rewritten, extracted, prev_extracted,
                   prev_rewritten, selected_experiences, optimized_summary>>

ExtractCall(text) ==
    /\ phase = "idle"
    /\ job_text' = text
    /\ extracted' = extract_job_keywords(text)
    /\ phase' = "extracted"
    /\ UNCHANGED <<optimizer, system, outcomes, keyword, found, job_keywords, matches, prev_matches,
                   report, original_bullet, keywords, rewritten, prev_extracted>>

\* the same text passed a second time
ExtractAgain ==
    /\ phase = "extracted"
    /\ prev_extracted' = extracted
    /\ extracted' = extract_job_keywords(job_text)
    /\ phase' = "extracted_twice"
    /\ UNCHANGED <<optimizer, system, outcomes, keyword, found, job_keywords, matches, prev_matches,
                   job_text, report, original_bullet, keywords, rewritten>>

Return ==
    /\ phase # "idle"
    /\ phase' = "idle"
    /\ keyword' = ""
    /\ found' = None
    /\ job_keywords' = <<>>
    /\ matches' = <<>>
    /\ prev_matches' = <<>>
    /\ job_text' = ""
    /\ report' = None
    /\ original_bullet' = ""
    /\ keywords' = <<>>
    /\ rewritten' = ""
    /\ extracted' = <<>>
    /\ prev_extracted' = <<>>
    /\ prev_rewritten' = ""
    /\ synonyms_returned' = <<>>
    /\ selected_experiences' = <<>>
    /\ optimized_summary' = ""
    /\ UNCHANGED <<optimizer, system>>

Next ==
    \/ \E kw \in FindKeywords : FindCall(kw)
    \/ \E jk \in JobKeywordSets : MatchCall(jk)
    \/ MatchAgain
    \/ \E text \in JobTexts : ReportCall(text)
    \/ \E bullet \in Bullets : \E kws \in KeywordLists : RewriteCall(bullet, kws)
    \/ RewriteAgain
    \/ \E kws \in KeywordLists : RewriteOther(kws)
    \/ \E text \in JobTexts : ExtractCall(text)
    \/ ExtractAgain
    \/ \E kw \in SynonymKeywords : SynonymsCall(kw)
    \/ Return

Spec == Init /\ [][Next]_vars

-----------------------------------------------------------------------------
(* Runs of main(): ResumeRetoolSystem.process_job_posting step by step,    *)
(* then save_results or exit.  The locals of a run are functions of the    *)
(* run; a local that is not bound yet is <<>>, a bound one <<value>>.      *)

\* the job postings given as raw text
SourceTexts == {
    "",
    "We are a great place to work",
    "Position: Vice President of Operations\nRequired:\n- healthcare\n- executive\n- digital\n- change management",
    "Seeking a Senior Program Manager\nMust have:\n- agile\n- PMP\n- strategic planning",
    "Acme Health Inc is hiring\nQualifications\n* transformation\n* python"}

\* paths that may name a file
Paths == {"job_screenshot.PNG", "downloads/job_description.pdf", "job.txt", "notes.md", "job.docx"}

Urls == {"https://www.linkedin.com/jobs/view/123456",
         "https://www.indeed.com/viewjob?jk=1",
         "https://www.glassdoor.com/job-listing/vp-operations",
         "http://example.com/careers/vp"}

Sources == SourceTexts \cup Paths \cup Urls

\* what a file or a page may hold
Contents == {"", "Job  Title:\tDirector of Delivery \n\n  Required:\n - leadership\n - data analysis "}

Envs == [isfile : BOOLEAN, raises : {<<>>, <<"Connection refused">>}, content : Contents]

\* if not extraction_result['success']
ShortCircuits_never(extraction) == FALSE

ShortCircuits(extraction) == ~extraction.success

\* the keyword_report process_job_posting passes on, taken from the last
\* generate_keyword_report call on the optimizer instead of the run's local
ReportOf_last_call(r) == report

ReportOf(r) == keyword_report[r][1]

\* _optimize_bullets writing the rewritten bullets into the list it was given
BulletsAfter_in_place(bullets, kr) == _optimize_bullets(bullets, kr)

\* the list _optimize_bullets was given, after the call
BulletsAfter(bullets, kr) == bullets

\* user_data after _generate_optimized_resume
DataAfter(kr) ==
    LET relevant == _select_relevant_experiences(kr)
    IN  [user_data EXCEPT !.experience =
            [i \in 1..Len(user_data.experience) |->
                IF InList(user_data.experience[i], relevant)
                THEN [user_data.experience[i] EXCEPT !.bullets = BulletsAfter(@, kr)]
                ELSE user_data.experience[i]]]

\* the arguments and the result of the last rewrite_bullet_with_keywords call
\* _generate_optimized_resume makes
LastRewrite(kr) ==
    LET relevant == _select_relevant_experiences(kr)
        bullets == relevant[Len(relevant)].bullets
        kws == [i \in 1..Len(kr.matched_details) |-> kr.matched_details[i].keyword]
    IN  <<bullets[Len(bullets)], kws, rewrite_bullet_with_keywords(bullets[Len(bullets)], kws)>>

\* the arguments and results of the calls, the phase apart
calls_made == <<keyword, found, job_keywords, matches, prev_matches, job_text, report,
                original_bullet, keywords, rewritten, extracted, prev_extracted>>

calls == <<phase, keyword, found, job_keywords, matches, prev_matches, job_text, report,
           original_bullet, keywords, rewritten, extracted, prev_extracted, prev_rewritten,
           synonyms_returned, selected_experiences, optimized_summary>>

Extract(r, source, env) ==
    /\ pc[r] = "start"
    /\ env.isfile => source \in Paths
    /\ input_source' = [input_source EXCEPT ![r] = <<source>>]
    /\ extraction_result' = [extraction_result EXCEPT ![r] = <<extract_from_source(source, env)>>]
    /\ pc' = [pc EXCEPT ![r] = "extracted"]
    /\ UNCHANGED <<optimizer, calls, keyword_report, customized_resume, results, saved>>

ReturnFailure(r) ==
    /\ pc[r] = "extracted"
    /\ ShortCircuits(extraction_result[r][1])
    /\ results' = [results EXCEPT ![r] =
                        <<[success |-> FALSE, error |-> extraction_result[r][1].error]>>]
    /\ pc' = [pc EXCEPT ![r] = "returned"]
    /\ UNCHANGED <<optimizer, calls, input_source, extraction_result, keyword_report,
                   customized_resume, saved>>

Analyze(r) ==
    /\ pc[r] = "extracted"
    /\ ~ShortCircuits(extraction_result[r][1])
    /\ job_text' = extraction_result[r][1].job_text
    /\ report' = generate_keyword_report(extraction_result[r][1].job_text)
    /\ keyword_report' = [keyword_report EXCEPT ![r] = <<report'>>]
    /\ pc' = [pc EXCEPT ![r] = "analyzed"]
    /\ UNCHANGED <<optimizer, outcomes, phase, keyword, found, job_keywords, matches,
                   prev_matches, original_bullet, keywords, rewritten, extracted, prev_extracted,
                   input_source, extraction_result, customized_resume, results, saved>>

Generate(r) ==
    /\ pc[r] = "analyzed"
    /\ customized_resume' = [customized_resume EXCEPT ![r] =
            <<_generate_optimized_resume(extraction_result[r][1], ReportOf(r))>>]
    /\ user_data' = DataAfter(ReportOf(r))
    /\ original_bullet' = LastRewrite(ReportOf(r))[1]
    /\ keywords' = LastRewrite(ReportOf(r))[2]
    /\ rewritten' = LastRewrite(ReportOf(r))[3]
    /\ results' = [results EXCEPT ![r] =
            <<[success |-> TRUE,
               input_source |-> input_source[r][1],
               extraction |-> extraction_result[r][1],
               keyword_analysis |-> ReportOf(r),
               customized_resume |-> customized_resume'[r][1]]>>]
    /\ pc' = [pc EXCEPT ![r] = "returned"]
    /\ UNCHANGED <<experience_keywords, verified_domains, forbidden_keywords, phase, keyword,
                   found, job_keywords, matches, prev_matches, job_text, report, extracted,
                   prev_extracted, outcomes, input_source, extraction_result, keyword_report,
                   saved>>

\* main: save_results writes the resume text, the PDF made of the parsed text
\* and the analysis
Save(r) ==
    /\ pc[r] = "returned"
    /\ results[r][1].success
    /\ saved' = [saved EXCEPT ![r] =
            <<[company |-> replace(results[r][1].extraction.company, " ", "_"),
               resume_file |-> results[r][1].customized_resume,
               pdf_file |-> _parse_resume_text(results[r][1].customized_resume),
               report_file |-> results[r][1]]>>]
    /\ pc' = [pc EXCEPT ![r] = "done"]
    /\ UNCHANGED <<optimizer, calls, input_source, extraction_result, keyword_report,
                   customized_resume, results>>

\* main: sys.exit(1)
Exit(r) ==
    /\ pc[r] = "returned"
    /\ ~results[r][1].success
    /\ pc' = [pc EXCEPT ![r] = "exit"]
    /\ UNCHANGED <<optimizer, calls, input_source, extraction_result, keyword_report,
                   customized_resume, results, saved>>

RunInit ==
    /\ Init
    /\ user_data = MainRecord

\* one run of main()
RunNext ==
    \/ \E source \in Sources : \E env \in Envs : Extract("a", source, env)
    \/ ReturnFailure("a")
    \/ Analyze("a")
    \/ Generate("a")
    \/ Save("a")
    \/ Exit("a")

RunSpec == RunInit /\ [][RunNext]_vars

\* the sources of the runs that share one ResumeRetoolSystem
SharedSources == {
    "We are a great place to work",
    "Position: Vice President of Operations\nRequired:\n- healthcare\n- executive\n- digital\n- change management",
    "Seeking a Senior Program Manager\nMust have:\n- agile\n- PMP\n- strategic planning",
    "https://www.indeed.com/viewjob?jk=1"}

NoFile == [isfile |-> FALSE, raises |-> <<>>, content |-> ""]

\* the steps of the runs interleave
SharedNext ==
    \/ \E r \in Runs : \E source \in SharedSources : Extract(r, source, NoFile)
    \/ \E r \in Runs : ReturnFailure(r)
    \/ \E r \in Runs : Analyze(r)
    \/ \E r \in Runs : Generate(r)
    \/ \E r \in Runs : Save(r)
    \/ \E r \in Runs : Exit(r)

SharedSpec == RunInit /\ [][SharedNext]_vars

-----------------------------------------------------------------------------
(* The methods of ResumeRetoolSystem that compose the resume, called one   *)
(* at a time on the report of a posting, as process_job_posting and        *)
(* _generate_optimized_resume call them.                                   *)

MaxListed == 3

\* a posting that lists the keywords kws as required
Posting(kws) == "Required:" \o join("", [i \in 1..Len(kws) |-> "\n- " \o kws[i]])

\* listed keywords for the role selection: a trigger of each role, and a
\* keyword the record does not match
SelectionPool == {"healthcare", "executive", "digital", "python"}

\* listed keywords for the summary: one for each clause
SummaryPool == {"strategic agile", "healthcare", "change management"}

Postings ==
    {Posting(kws) : kws \in SeqsUpTo(SelectionPool, MaxListed)}
    \cup {Posting(kws) : kws \in SeqsUpTo(SummaryPool, MaxListed + 1)}
    \cup {"Required:\n- transformation\n- director\n- operational",
          "Must have:\n- health\n- leadership\n- production",
          "Qualifications\n* enterprise\n* vp\n* vice president",
          "Required:\n- agile\n- stakeholder management",
          "Required:\n- digital\n- agile\n- production\n- strategic change management"}

SelectCall ==
    /\ phase = "reported"
    /\ selected_experiences' = _select_relevant_experiences(report)
    /\ phase' = "selected"
    /\ UNCHANGED <<optimizer, system, calls_made, prev_rewritten, synonyms_returned,
                   optimized_summary>>

SummaryCall ==
    /\ phase = "reported"
    /\ optimized_summary' = _optimize_summary(report)
    /\ phase' = "summarized"
    /\ UNCHANGED <<optimizer, system, calls_made, prev_rewritten, synonyms_returned,
                   selected_experiences>>

ComposeNext ==
    \/ \E text \in Postings : ReportCall(text)
    \/ SelectCall
    \/ SummaryCall
    \/ Return

ComposeSpec == RunInit /\ [][ComposeNext]_vars

-----------------------------------------------------------------------------
(* Properties.                                                             *)

\* kw contains a phrase of the forbidden table, compared without regard to case
ContainsForbidden(kw) ==
    LET k == lower(kw)
        phrases == Values(ForbiddenKeywords)
    IN  \E i \in 1..Len(phrases) : LET f == lower(phrases[i]) IN In(f, k)

IsBlank(kw) == strip(kw) = ""

\* the candidate keywords generate_keyword_report works on
Candidates(text) == Values(extract_job_keywords(text))

\* the maximal alphabetic tokens of a text
Tokens(s) ==
    {SubSeq(s, i, Min({j \in i..Len(s) : j = Len(s) \/ ~IsAlpha(Char(s, j + 1))})) :
        i \in {k \in 1..Len(s) : IsAlpha(Char(s, k)) /\ (k = 1 \/ ~IsAlpha(Char(s, k - 1)))}}

DomainApplies(kw) ==
    \E i \in 1..Len(VerifiedDomains) :
        \E j \in 1..Len(VerifiedDomains[i].value) :
            In(kw, VerifiedDomains[i].value[j]) \/ In(VerifiedDomains[i].value[j], kw)

SynonymApplies(kw) ==
    \E i \in 1..Len(synonym_map) :
        \/ In(synonym_map[i].key, kw)
           /\ (Range(synonym_map[i].value) \cap experience_keywords) # {}
        \/ /\ ~In(synonym_map[i].key, kw)
           /\ kw \in Range(synonym_map[i].value)
           /\ ((({synonym_map[i].key} \cup Range(synonym_map[i].value)) \ {kw})
                \cap experience_keywords) # {}

Matched == phase \in {"matched", "matched_twice"}

\* C1: match_keywords_to_experience never returns a KeywordMatch whose keyword
\* contains, case-insensitively, a phrase of forbidden_keywords.
C1_ForbiddenNeverMatched ==
    Matched => \A i \in 1..Len(matches) : ~ContainsForbidden(matches[i].keyword)

\* C2: every maximal alphabetic token of a rewritten bullet is a token of the
\* bullet, or a token of the replacement of a pair of safe_replacements whose
\* original was present in the bullet.
C2_NonFabrication ==
    phase = "rewritten" =>
        LET source == Tokens(original_bullet)
            bullet_lower == lower(original_bullet)
            present == {i \in 1..Len(safe_replacements) :
                            In(safe_replacements[i].key, bullet_lower)}
            allowed == UNION {Tokens(safe_replacements[i].value) : i \in present}
        IN  \A t \in Tokens(rewritten) : t \in source \/ t \in allowed

\* C3: every candidate keyword of a report that contains a forbidden phrase,
\* case-insensitively, is listed in unmatched_keywords with the fixed reason.
C3_ForbiddenListed ==
    phase = "reported" =>
        \A kw \in Range(Candidates(job_text)) :
            ContainsForbidden(kw) =>
                [keyword |-> kw, reason |-> "No direct experience - cannot fabricate"]
                    \in Range(report.unmatched_keywords)

\* C4: rewriting "Managed the department" yields "strategically led the department".
C4_ManagedTheDepartment ==
    (phase = "rewritten" /\ original_bullet = "Managed the department")
        => rewritten = "strategically led the department"

\* C5: _find_experience_match returns the first rule that applies in the order
\* exact, related (domain), synonym: a keyword of the experience vocabulary is
\* exact with confidence 1.0 whatever else applies, and a keyword for which the
\* domain and the synonym rule apply is related, never synonym.
C5_RuleOrder ==
    phase = "found" =>
        /\ keyword \in experience_keywords =>
              /\ Len(found) = 1
              /\ found[1].match_type = "exact"
              /\ found[1].confidence = 10
        /\ (keyword \notin experience_keywords /\ DomainApplies(keyword)) =>
              /\ Len(found) = 1
              /\ found[1].match_type = "related"
        /\ (keyword \notin experience_keywords /\ ~DomainApplies(keyword)
                /\ SynonymApplies(keyword)) =>
              /\ Len(found) = 1
              /\ found[1].match_type = "synonym"

C5_Witness ==
    /\ phase = "found"
    /\ keyword \in experience_keywords
    /\ DomainApplies(keyword)
    /\ SynonymApplies(keyword)
    /\ found[1].match_type = "exact"

\* every KeywordMatch the last call returned
Produced == Range(found) \cup Range(matches) \cup Range(prev_matches)

\* C6: every KeywordMatch produced has the confidence of its kind, exact 1.0,
\* related 0.8, synonym 0.7 (in tenths), so it lies in (0, 1] and decreases
\* from exact to related to synonym.
C6_ConfidenceByKind ==
    \A m \in Produced :
        /\ <<m.match_type, m.confidence>> \in {<<"exact", 10>>, <<"related", 8>>, <<"synonym", 7>>}
        /\ 0 < m.confidence /\ m.confidence <= 10
        /\ \A n \in Produced :
              ((m.match_type = "exact" /\ n.match_type # "exact")
                  \/ (m.match_type = "related" /\ n.match_type = "synonym"))
              => m.confidence > n.confidence

C6_Witness ==
    /\ phase = "matched"
    /\ \E i, j \in 1..Len(matches) :
          matches[i].match_type = "synonym" /\ matches[j].match_type = "exact"

\* C7: in every report 0 <= matched_keywords <= total_keywords and the rate is
\* matched / max(1, total), between 0 and 1 with a denominator of at least 1; a
\* text without keywords gives total 0 and rate 0.
C7_MatchRateBounds ==
    phase = "reported" =>
        /\ 0 <= report.matched_keywords
        /\ report.matched_keywords <= report.total_keywords
        /\ report.match_rate[2] >= 1
        /\ report.match_rate[2] >= report.total_keywords
        /\ report.match_rate[1] = report.matched_keywords
        /\ 0 <= report.match_rate[1]
        /\ report.match_rate[1] <= report.match_rate[2]
        /\ Candidates(job_text) = <<>> =>
              report.total_keywords = 0 /\ report.match_rate[1] = 0

C7_Witness ==
    /\ phase = "reported"
    /\ job_text = ""
    /\ report.total_keywords = 0
    /\ report.match_rate = <<0, 1>>

\* C8: in every report matched_keywords + |unmatched_keywords| +
\* |optimization_suggestions| <= total_keywords.
C8_CountsTieOut ==
    phase = "reported" =>
        report.matched_keywords + Len(report.unmatched_keywords)
            + Len(report.optimization_suggestions) <= report.total_keywords

C8_Witness ==
    /\ phase = "reported"
    /\ report.matched_keywords > 0
    /\ Len(report.unmatched_keywords) > 0
    /\ Len(report.optimization_suggestions) > 0

C10_BlankNeverMatches ==
    (Matched /\ \A kw \in Range(Values(job_keywords)) : IsBlank(kw)) => matches = <<>>

\* C11: a keyword that contains no forbidden phrase, is not in the experience
\* vocabulary and is a substring of, or contains, a phrase of verified_domains
\* is returned as a related match with confidence 0.8 whose evidence names a
\* phrase that matched; 'healthcare' is matched with the evidence of the
\* 'industries' entry, and 'project management' against a record with the
\* skill 'Project & Program Management' has confidence >= 0.8.
C11_DomainRelated ==
    (phase = "found" /\ ~ContainsForbidden(keyword)) =>
        /\ (keyword \notin experience_keywords /\ DomainApplies(keyword)) =>
              /\ Len(found) = 1
              /\ found[1].keyword = keyword
              /\ found[1].match_type = "related"
              /\ found[1].confidence = 8
              /\ \E p \in Range(Values(VerifiedDomains)) :
                    /\ In(keyword, p) \/ In(p, keyword)
                    /\ found[1].resume_context = "Related experience: " \o p
        /\ (keyword = "healthcare" /\ keyword \notin experience_keywords) =>
              /\ Len(found) = 1
              /\ \E i \in 1..Len(VerifiedDomains) :
                    /\ VerifiedDomains[i].key = "industries"
                    /\ \E p \in Range(VerifiedDomains[i].value) :
                          found[1].resume_context = "Related experience: " \o p
        /\ (keyword = "project management"
                /\ "Project & Program Management" \in Range(user_data.skills)) =>
              /\ Len(found) = 1
              /\ found[1].confidence >= 8

C11_Witness ==
    /\ phase = "found"
    /\ keyword = "digital transformation"
    /\ "Project & Program Management" \in Range(user_data.skills)
    /\ keyword \notin experience_keywords
    /\ found[1].match_type = "related"
    /\ found[1].resume_context = "Related experience: transformation"

\* C12: a run whose extraction failed short-circuits: it builds no report, no
\* resume and saves nothing, and what it returns is success = FALSE with the
\* error of the extraction; a report is only built after a successful
\* extraction and a resume only after the report.
C12_ShortCircuit ==
    \A r \in Runs :
        /\ (extraction_result[r] # <<>> /\ ~extraction_result[r][1].success) =>
              /\ keyword_report[r] = <<>>
              /\ customized_resume[r] = <<>>
              /\ saved[r] = <<>>
              /\ pc[r] \in {"extracted", "returned", "exit"}
              /\ pc[r] # "extracted" =>
                    results[r] = <<[success |-> FALSE,
                                    error |-> extraction_result[r][1].error]>>
        /\ keyword_report[r] # <<>> =>
              extraction_result[r] # <<>> /\ extraction_result[r][1].success
        /\ customized_resume[r] # <<>> => keyword_report[r] # <<>>
        /\ saved[r] # <<>> => results[r] # <<>> /\ results[r][1].success

C12_Witness ==
    /\ pc["a"] = "exit"
    /\ ~extraction_result["a"][1].success
    /\ results["a"][1].error =
            <<"URL extraction failed: 'JobPostingExtractor' object has no attribute '_extract_from_indeed'">>

\* the f"{exp['company']:<50} {exp['dates']:>20}" line of a role
RoleHeader(exp) == ljust(exp.company, 50) \o " " \o rjust(exp.dates, 20)

\* the role lines of a resume text, in the order of the text
RoleLines(text) ==
    SelectSeq(split_on(text, "\n"),
              LAMBDA line : \E exp \in Range(user_data.experience) : line = RoleHeader(exp))

\* the lines of a resume text from the line after a heading to the next empty line
SectionLines(text, heading) ==
    LET lines == split_on(text, "\n")
        h == Min({i \in 1..Len(lines) : lines[i] = heading})
        e == Min({i \in (h + 1)..(Len(lines) + 1) : i = Len(lines) + 1 \/ lines[i] = ""})
    IN  SubSeq(lines, h + 1, e - 1)

\* C13: a run on a job text in which extract_job_keywords finds no keyword is
\* not an error: its report counts no keyword and no match, with match rate 0,
\* the resume lists the skills in their stored order, and the roles are the
\* default ones: the current role, the 2017 freelance role, then the next roles
\* of the record up to four.
C13_EmptyExtraction ==
    \A r \in Runs :
        (/\ extraction_result[r] # <<>>
         /\ extraction_result[r][1].success
         /\ Candidates(extraction_result[r][1].job_text) = <<>>) =>
            /\ pc[r] # "exit"
            /\ keyword_report[r] # <<>> =>
                  /\ keyword_report[r][1].total_keywords = 0
                  /\ keyword_report[r][1].matched_keywords = 0
                  /\ keyword_report[r][1].match_rate = <<0, 1>>
                  /\ keyword_report[r][1].matched_details = <<>>
            /\ results[r] # <<>> =>
                  /\ results[r][1].success
                  /\ results[r][1].keyword_analysis.matched_keywords = 0
                  /\ SectionLines(results[r][1].customized_resume, "CORE COMPETENCIES")
                        = [i \in 1..Len(Take(user_data.skills, 12)) |->
                                bullet_mark \o " " \o user_data.skills[i]]
                  /\ RoleLines(results[r][1].customized_resume)
                        = <<RoleHeader(user_data.experience[1]),
                            RoleHeader(user_data.experience[3]),
                            RoleHeader(user_data.experience[2]),
                            RoleHeader(user_data.experience[4])>>

C13_Witness ==
    /\ pc["a"] = "done"
    /\ input_source["a"] = <<"We are a great place to work">>
    /\ results["a"][1].keyword_analysis.total_keywords = 0
    /\ user_data.experience[3].company = "FREELANCE"
    /\ user_data.experience[3].dates = "2017 " \o en_dash \o " 2019"
    /\ Len(RoleLines(results["a"][1].customized_resume)) = 4

\* C14: whatever the runs have done (extraction, report, selection, rewriting
\* of the bullets, saving), the experience record, the vocabulary derived from
\* it, the verified-domain table and the forbidden table are the ones of
\* construction.
C14_RecordAndTablesUnchanged ==
    /\ user_data = MainRecord
    /\ experience_keywords = _extract_resume_keywords(MainRecord)
    /\ verified_domains = VerifiedDomains
    /\ forbidden_keywords = ForbiddenKeywords

C14_Witness ==
    /\ pc["a"] = "done"
    /\ \E exp \in Range(user_data.experience) : \E b \in Range(exp.bullets) :
          /\ rewrite_bullet_with_keywords(b, <<>>) # b
          /\ In(bullet_mark \o " " \o rewrite_bullet_with_keywords(b, <<>>) \o "\n",
                saved["a"][1].resume_file)
          /\ ~In(bullet_mark \o " " \o b \o "\n", saved["a"][1].resume_file)

\* C15: with two runs over one optimizer and one record, their steps
\* interleaved in any order, the report of each run is the report of its own
\* job text and its resume is the one made from its own extraction and report:
\* what a run alone produces.
C15_RunsIndependent ==
    \A r \in Runs :
        /\ keyword_report[r] # <<>> =>
              keyword_report[r][1] = generate_keyword_report(extraction_result[r][1].job_text)
        /\ customized_resume[r] # <<>> =>
              customized_resume[r][1] =
                  _generate_optimized_resume(
                      extraction_result[r][1],
                      generate_keyword_report(extraction_result[r][1].job_text))
        /\ (results[r] # <<>> /\ results[r][1].success) =>
              /\ results[r][1].keyword_analysis = keyword_report[r][1]
              /\ results[r][1].customized_resume = customized_resume[r][1]
              /\ results[r][1].extraction = extraction_result[r][1]

\* run a built its report before run b and its resume after run b
C15_Witness ==
    /\ pc["a"] = "returned" /\ pc["b"] = "returned"
    /\ results["a"][1].success /\ results["b"][1].success
    /\ extraction_result["a"][1].job_text # extraction_result["b"][1].job_text
    /\ report = keyword_report["b"][1]
    /\ keyword_report["a"][1].matched_details # keyword_report["b"][1].matched_details
    /\ keywords = [i \in 1..Len(keyword_report["a"][1].matched_details) |->
                        keyword_report["a"][1].matched_details[i].keyword]
    /\ keywords # [i \in 1..Len(keyword_report["b"][1].matched_details) |->
                        keyword_report["b"][1].matched_details[i].keyword]

categories == <<"required_skills", "preferred_skills", "responsibilities", "tools",
                "industry_specific">>

\* C16: for every job text, the empty one included, extract_job_keywords
\* returns the five categories, each bound to a sequence of strings, which is
\* the empty sequence when nothing was found for it; a second call on the
\* same text returns the same.
C16_FiveCategories ==
    phase \in {"extracted", "extracted_twice"} =>
        /\ [i \in 1..Len(extracted) |-> extracted[i].key] = categories
        /\ \A i \in 1..Len(extracted) :
              /\ DOMAIN extracted[i].value = 1..Len(extracted[i].value)
              /\ \A j \in 1..Len(extracted[i].value) : extracted[i].value[j] \in STRING
        /\ job_text = "" => \A i \in 1..Len(extracted) : extracted[i].value = <<>>
        /\ \A i \in 1..Len(extracted) :
              (extracted[i].key = "industry_specific"
                    /\ \A t \in 1..Len(healthcare_terms) :
                            ~In(healthcare_terms[t], lower(job_text)))
                => extracted[i].value = <<>>
        /\ phase = "extracted_twice" => extracted = prev_extracted

C16_Witness ==
    /\ phase = "extracted_twice"
    /\ \E i, j \in 1..Len(extracted) : extracted[i].value = <<>> /\ extracted[j].value # <<>>

\* C18: a candidate keyword of the report's job text that is not among the
\* matches and holds no forbidden phrase has a suggestion exactly when a key
\* of the guidance table is a substring of it, the suggestion is the guidance
\* of the first such key of the table, and the keyword is not listed as
\* unmatched: without a key it is in none of the report's lists.
C18_SuggestionByFirstKey ==
    phase = "reported" =>
        \A kw \in Range(Candidates(job_text)) :
            LET matched == {report.matched_details[i].keyword :
                                i \in 1..Len(report.matched_details)}
                keys == {i \in 1..Len(alternatives) : In(alternatives[i].key, lower(kw))}
                suggested == {s \in Range(report.optimization_suggestions) : s.missing = kw}
            IN  (strip(lower(kw)) \notin matched /\ ~ContainsForbidden(kw)) =>
                    /\ keys # {} <=> suggested # {}
                    /\ \A s \in suggested : s.alternative = alternatives[Min(keys)].value
                    /\ \A u \in Range(report.unmatched_keywords) : u.keyword # kw

C18_Witness ==
    /\ phase = "reported"
    /\ [missing |-> "compliance data",
        alternative |-> "Mention regulatory work with financial services clients"]
            \in Range(report.optimization_suggestions)
    /\ "quantum computing" \in Range(Candidates(job_text))
    /\ \A s \in Range(report.optimization_suggestions) : s.missing # "quantum computing"

\* the title line _generate_optimized_resume writes for an extraction
TitleLine(extraction) == extraction.position \o " Candidate | " \o user_data.title

\* C17: parsing the resume text a run generated recovers the title line, as
\* many roles as were selected, and for each role the bullets the text shows
\* for it, in order.
C17_RoundTrip ==
    \A r \in Runs :
        saved[r] # <<>> =>
            LET parsed == saved[r][1].pdf_file
                selected == _select_relevant_experiences(keyword_report[r][1])
            IN  /\ parsed.title = TitleLine(extraction_result[r][1])
                /\ Len(parsed.experience) = Len(selected)
                /\ \A i \in 1..Len(selected) :
                      i <= Len(parsed.experience) =>
                          parsed.experience[i].bullets =
                              Take(_optimize_bullets(selected[i].bullets, keyword_report[r][1]), 5)

\* C19: with the empty experience record, no skills and no roles, every
\* lookup fails: match_keywords_to_experience returns no match, whatever the
\* categorized keywords are.
C19_EmptyRecordNoMatch ==
    (user_data = EmptyRecord /\ phase \in {"matched", "matched_twice"}) => matches = <<>>

\* C20: _reorder_skills returns a permutation of the stored skills, the skills
\* some matched keyword is a substring of (case aside) before the others, the
\* stored order kept among the first and among the others; the resume lists
\* the first 12 of them, in that order.
C20_SkillsReordered ==
    \A r \in Runs :
        keyword_report[r] # <<>> =>
            LET stored == user_data.skills
                reordered == _reorder_skills(keyword_report[r][1])
                IsMatched(skill) ==
                    \E i \in 1..Len(keyword_report[r][1].matched_details) :
                        In(lower(keyword_report[r][1].matched_details[i].keyword), lower(skill))
                Pos(skill) == Min({k \in 1..Len(stored) : stored[k] = skill})
            IN  /\ Len(reordered) = Len(stored)
                /\ \A skill \in Range(stored) \cup Range(reordered) :
                      Cardinality({i \in 1..Len(reordered) : reordered[i] = skill})
                          = Cardinality({i \in 1..Len(stored) : stored[i] = skill})
                /\ \A i, j \in 1..Len(reordered) :
                      i < j =>
                          /\ IsMatched(reordered[j]) => IsMatched(reordered[i])
                          /\ (IsMatched(reordered[i]) <=> IsMatched(reordered[j]))
                                => Pos(reordered[i]) < Pos(reordered[j])
                /\ customized_resume[r] # <<>> =>
                      /\ Len(SectionLines(customized_resume[r][1], "CORE COMPETENCIES")) <= 12
                      /\ SectionLines(customized_resume[r][1], "CORE COMPETENCIES")
                            = [i \in 1..Len(Take(reordered, 12)) |->
                                    bullet_mark \o " " \o reordered[i]]

C20_Witness ==
    /\ pc["a"] = "done"
    /\ user_data.skills[1] = "Project & Program Management"
    /\ SectionLines(saved["a"][1].resume_file, "CORE COMPETENCIES")[1]
            = bullet_mark \o " " \o "Change Management"
    /\ \E i \in 1..Len(user_data.skills) :
          _reorder_skills(keyword_report["a"][1])[i] = "Project & Program Management"

\* C21: whatever keywords the posting's report matched, the list
\* _select_relevant_experiences returns starts with the first role of the
\* record, holds no role twice, and has at least 3 and at most 5 roles.
C21_SelectionShape ==
    phase = "selected" =>
        /\ Len(selected_experiences) >= 3
        /\ Len(selected_experiences) <= 5
        /\ selected_experiences[1] = user_data.experience[1]
        /\ \A i, j \in 1..Len(selected_experiences) :
                selected_experiences[i] = selected_experiences[j] => i = j

\* selections of three and of four roles are both reached, with and without matches
C21_Witness ==
    /\ phase = "selected"
    /\ report.matched_details = <<>>
    /\ Len(selected_experiences) = 4
    /\ selected_experiences[1].company = "TBWA WH, NEW YORK, NY"

\* the keywords of the trigger lists of _select_relevant_experiences
RoleTriggers ==
    {"healthcare", "health", "enterprise", "transformation", "leadership", "executive", "vp",
     "vice president", "director", "digital", "production", "operational"}

\* no keyword the report matched is a trigger
NoTrigger ==
    \A i \in 1..Len(report.matched_details) :
        lower(report.matched_details[i].keyword) \notin RoleTriggers

\* C22, as stated: when no trigger keyword is matched, the roles after the most
\* recent one appear in the selection in the order they have in the record.
C22_RecordOrder ==
    (phase = "selected" /\ NoTrigger) =>
        \A i, j \in 2..Len(selected_experiences) :
            i < j =>
                \E a, b \in 1..Len(user_data.experience) :
                    /\ a < b
                    /\ user_data.experience[a] = selected_experiences[i]
                    /\ user_data.experience[b] = selected_experiences[j]

\* C22, amended: when no trigger keyword is matched the selection is the most
\* recent role, then the 2017 freelance role (third entry of the record), then
\* the second and the fourth entry: the freelance role stands before the roles
\* the last loop fills in, and those keep the order of the record.  When a
\* trigger is matched the last loop adds nothing: every further role is the
\* role of a trigger or the 2017 freelance role.
C22_FreelanceThenRecordOrder ==
    phase = "selected" =>
        IF NoTrigger
        THEN selected_experiences = <<user_data.experience[1], user_data.experience[3],
                                      user_data.experience[2], user_data.experience[4]>>
        ELSE \A k \in 2..Len(selected_experiences) :
                \/ selected_experiences[k] = user_data.experience[2]
                \/ In("Y&R", selected_experiences[k].company)
                \/ In("PUBLICIS", selected_experiences[k].company)
                \/ selected_experiences[k] = user_data.experience[3]

\* a selection made for a report that matched a keyword, none of them a trigger
C22_Witness ==
    /\ phase = "selected"
    /\ NoTrigger
    /\ report.matched_details # <<>>
    /\ selected_experiences[2].company = "FREELANCE"
    /\ selected_experiences[3].company = "ACCENTURE, NEW YORK, NY"

\* the keywords the report matched, lower-cased
ReportMatched == {lower(report.matched_details[i].keyword) : i \in 1..Len(report.matched_details)}

\* C23: the triggers follow the table.  A matched healthcare, health,
\* enterprise or transformation puts the second role of the record directly
\* after the most recent one; a matched leadership, executive, vp, vice
\* president or director selects the Y&R role; a matched digital, production
\* or operational selects the Publicis role.
C23_TriggerTable ==
    phase = "selected" =>
        /\ ReportMatched \cap {"healthcare", "health", "enterprise", "transformation"} # {} =>
                selected_experiences[2] = user_data.experience[2]
        /\ ReportMatched \cap {"leadership", "executive", "vp", "vice president", "director"} # {} =>
                \E k \in 1..Len(selected_experiences) :
                    selected_experiences[k].company = "Y&R NY"
        /\ ReportMatched \cap {"digital", "production", "operational"} # {} =>
                \E k \in 1..Len(selected_experiences) :
                    selected_experiences[k].company = "PUBLICIS KAPLAN THALER"

\* the three triggers at once: the three roles follow the most recent one
C23_Witness ==
    /\ phase = "selected"
    /\ {"healthcare", "executive", "digital"} \subseteq ReportMatched
    /\ Len(selected_experiences) = 4
    /\ selected_experiences[2].company = "ACCENTURE, NEW YORK, NY"
    /\ selected_experiences[3].company = "Y&R NY"
    /\ selected_experiences[4].company = "PUBLICIS KAPLAN THALER"

\* the summary texts: with or without the clause of 'strategic', the clause of
\* 'healthcare' or its alternative, and the clause of 'change' or its alternative
SummaryVariant(strategic, healthcare, change) ==
    "Highly accomplished executive with 20+ years driving "
    \o (IF strategic THEN "strategic initiatives and " ELSE "")
    \o (IF healthcare THEN "transformation in healthcare and complex organizations. "
        ELSE "operational excellence in complex organizations. ")
    \o "Proven track record of translating enterprise strategies into actionable plans, "
    \o "leading cross-functional teams, and delivering measurable outcomes. "
    \o (IF change THEN "Expert change agent driving organizational transformation."
        ELSE "Expert in scalable solution deployment and continuous improvement.")

\* word occurs in one of the first three keywords the report matched
InTopMatches(word) ==
    \E i \in 1..Len(report.matched_details) :
        i <= 3 /\ In(word, lower(report.matched_details[i].keyword))

SynonymGroup(i) == {synonym_map[i].key} \cup Range(synonym_map[i].value)

\* C25: synonyms are resolved in both directions and a synonym match rests on
\* the vocabulary.  For a term of a synonym group, key or value, _get_synonyms
\* returns every other term of the group; and a match of type synonym has
\* confidence 0.7 and names as evidence a synonym of the keyword that is an
\* element of experience_keywords.
C25_SynonymsBothWays ==
    /\ phase = "synonyms" =>
            \A i \in 1..Len(synonym_map) :
                keyword \in SynonymGroup(i) =>
                    (SynonymGroup(i) \ {keyword}) \subseteq Range(synonyms_returned)
    /\ (phase = "found" /\ found # <<>> /\ found[1].match_type = "synonym") =>
            /\ found[1].confidence = 7
            /\ \E i \in 1..Len(synonym_map) :
                    \E s \in SynonymGroup(i) \cap experience_keywords :
                        /\ found[1].resume_context = "Similar experience: " \o s
                        /\ In(synonym_map[i].key, keyword) \/ keyword \in SynonymGroup(i)

\* a value asked about: its key and the other values of its group come back
C25_Witness ==
    /\ phase = "synonyms"
    /\ keyword = "lead"
    /\ synonyms_returned = <<"manage", "oversee", "direct", "supervise">>

\* C26: the industry category holds the terms of the fixed list that occur in
\* the job text without regard to case, each once and in the order of the list.
C26_IndustryTermsRecorded ==
    phase \in {"extracted", "extracted_twice"} =>
        \A i \in 1..Len(extracted) :
            extracted[i].key = "industry_specific" =>
                extracted[i].value =
                    SelectSeq(healthcare_terms,
                              LAMBDA term : In(lower(term), lower(job_text)))

\* the sentences of the last job text, split at the periods
Sentences == split_on(job_text, ".")

\* the sentences that hold one of the action verbs, by their place in the text
Tagged ==
    {i \in 1..Len(Sentences) :
        \E v \in 1..Len(action_verbs) : In(action_verbs[v], lower(Sentences[i]))}

\* C27: a sentence of the job text, delimited by periods, is recorded under
\* responsibilities exactly when it holds one of the action verbs, in any
\* case; it is recorded once however many verbs it holds, and the recorded
\* sentences follow the order of the text.
C27_SentencesOnce ==
    phase \in {"extracted", "extracted_twice"} =>
        \A c \in 1..Len(extracted) :
            extracted[c].key = "responsibilities" =>
                /\ Len(extracted[c].value) = Cardinality(Tagged)
                /\ \A i \in Tagged :
                        extracted[c].value[Cardinality({j \in Tagged : j <= i})]
                            = strip(Sentences[i])

\* a text with a sentence of two verbs, a sentence of none, a verb in capitals
C27_Witness ==
    /\ phase = "extracted"
    /\ Len(Sentences) = 5
    /\ Tagged = {1, 3, 4}
    /\ extracted[3].value = <<"Design and implement roadmaps", "MONITOR budgets",
                              "Design and implement roadmaps">>

\* C28: extract_from_source returns a result for every source, and a result
\* with success false carries an error that is a non-empty string, also for
\* an existing file whose extension is none of the supported formats.
C28_FailureHasError ==
    \A r \in Runs :
        (extraction_result[r] # <<>> /\ ~extraction_result[r][1].success) =>
            /\ extraction_result[r][1].error # None
            /\ extraction_result[r][1].error[1] # ""

\* C29: rewriting is idempotent: the rewritten bullet passed again comes back
\* as it is, for every bullet, those that already hold a replacement included.
C29_RewriteIdempotent ==
    phase = "rewritten_again" => rewritten = prev_rewritten

=============================================================================
